---- MODULE Spec2Model ----
(***************************************************************************)
(* Verification model of starlark-go-copybara: the pattern engine          *)
(* (core/glob.go), the reversible file transformations (core/move.go,      *)
(* core/replace.go, core/remove.go), the author mapping and the message    *)
(* transformations (metadata/transforms.go, transform/context.go).         *)
(*                                                                         *)
(* Strings are sequences of one-character strings, so that splitting,      *)
(* trimming, prefix tests and parsing are computed as the code computes    *)
(* them.                                                                   *)
(***************************************************************************)
EXTENDS Integers, Sequences, FiniteSets, TLC

VARIABLES
    g,        \* pattern engine: the operand glob most recently built by NewGlob
    acc,      \* pattern engine: the glob a script expression has built so far
    gop,      \* pattern engine: the last operation performed
    gpath,    \* pattern engine: the path last handed to Matches
    gres,     \* pattern engine: the result of the last Matches call
    groots,   \* pattern engine: the result of the last Roots call
    xf,       \* file transforms: the current Transformation value
    xorig,    \* file transforms: the Transformation as constructed
    xrevs,    \* file transforms: number of Reverse() calls made on xorig
    tree,     \* file transforms: working tree, file path -> content
    xop,      \* file transforms: the last operation performed
    fs,       \* file transforms: working directory with its directories
    flog,     \* file transforms: the Apply calls made on fs, latest first
    xerr,     \* file transforms: errors the last Apply returned (<<>> = nil)
    ma,       \* author mapping: the current Transformation value
    maorig,   \* author mapping: the MapAuthor as constructed
    marevs,   \* author mapping: number of Reverse() calls made on maorig
    ctx,      \* author mapping: the Context (Author, Message, Changes)
    aerr,     \* author mapping: error returned by the last Apply ("" = nil)
    aop,      \* author mapping: the last operation performed
    mt,       \* message engine: the transformation last applied
    mctx,     \* message engine: the Context of the pass
    mpre,     \* message engine: the Context as it was before the last Apply
    merr,     \* message engine: error returned by the last Apply ("" = nil)
    mop,      \* message engine: the last operation performed
    mcount,   \* message engine: number of Apply calls made on the Context
    cop,      \* configuration: the builtin or policy function last called
    cin,      \* configuration: the arguments of that call
    cout      \* configuration: the value or error the call returned

gvars == <<g, acc, gop, gpath, gres, groots>>
fvars == <<fs, flog, xerr>>
xvars == <<xf, xorig, xrevs, tree, xop, fs, flog, xerr>>
avars == <<ma, maorig, marevs, ctx, aerr, aop>>
mvars == <<mt, mctx, mpre, merr, mop, mcount>>
cvars == <<cop, cin, cout>>
vars == <<g, acc, gop, gpath, gres, groots, xf, xorig, xrevs, tree, xop,
          fs, flog, xerr, ma, maorig, marevs, ctx, aerr, aop,
          mt, mctx, mpre, merr, mop, mcount, cop, cin, cout>>

(***************************************************************************)
(* Bounds                                                                  *)
(***************************************************************************)
\* longest path, in segments, handed to Matches
MaxDepth == 2
\* most patterns (include list plus nested exclude lists) a built glob may hold
MaxPatterns == 2

(***************************************************************************)
(* Go string functions, on sequences of characters                         *)
(***************************************************************************)
HasPrefix(s, p) == Len(p) <= Len(s) /\ SubSeq(s, 1, Len(p)) = p

HasSuffix(s, p) == Len(p) <= Len(s) /\ SubSeq(s, Len(s) - Len(p) + 1, Len(s)) = p

TrimPrefix(s, p) == IF HasPrefix(s, p) THEN SubSeq(s, Len(p) + 1, Len(s)) ELSE s

TrimSuffix(s, p) == IF HasSuffix(s, p) THEN SubSeq(s, 1, Len(s) - Len(p)) ELSE s

\* strings.Index, 1-based; 0 when sep does not occur (sep is never empty here)
Index(s, sep) ==
    LET hits == {i \in 1..(Len(s) - Len(sep) + 1) : SubSeq(s, i, i + Len(sep) - 1) = sep}
    IN IF hits = {} THEN 0 ELSE CHOOSE i \in hits : \A j \in hits : i <= j

Contains(s, sep) == Index(s, sep) # 0

ContainsAny(s, chars) == \E i \in 1..Len(s) : s[i] \in chars

RECURSIVE Split(_, _)
Split(s, sep) ==
    LET i == Index(s, sep)
    IN IF i = 0 THEN <<s>>
       ELSE <<SubSeq(s, 1, i - 1)>> \o Split(SubSeq(s, i + Len(sep), Len(s)), sep)

RECURSIVE Join(_, _)
Join(parts, sep) ==
    IF Len(parts) = 0 THEN <<>>
    ELSE IF Len(parts) = 1 THEN parts[1]
    ELSE parts[1] \o sep \o Join(Tail(parts), sep)

Slash == <<"/">>
DoubleStar == <<"*", "*">>

\* path/filepath.Match for patterns built from literals, '*' and '?': the
\* whole name must match, '*' and '?' never match the separator.
RECURSIVE FilepathMatch(_, _)
FilepathMatch(pattern, name) ==
    IF Len(pattern) = 0 THEN Len(name) = 0
    ELSE IF Head(pattern) = "*"
         THEN \E k \in 0..Len(name) :
                  /\ \A i \in 1..k : name[i] # "/"
                  /\ FilepathMatch(Tail(pattern), SubSeq(name, k + 1, Len(name)))
    ELSE IF Head(pattern) = "?"
         THEN /\ Len(name) > 0
              /\ Head(name) # "/"
              /\ FilepathMatch(Tail(pattern), Tail(name))
    ELSE /\ Len(name) > 0
         /\ Head(name) = Head(pattern)
         /\ FilepathMatch(Tail(pattern), Tail(name))

(***************************************************************************)
(* core/glob.go                                                            *)
(* A Glob is [include |-> list of patterns, exclude |-> <<>> or <<Glob>>]; *)
(* the empty exclude list is the nil pointer.                              *)
(***************************************************************************)
NilGlob == <<>>

MkGlob(include, exclude) == [include |-> include, exclude |-> exclude]

AllFiles == MkGlob(<<DoubleStar>>, NilGlob)

validateGlobPattern(pattern) ==
    /\ pattern # <<>>
    /\ ~HasPrefix(pattern, Slash)

\* NewGlob: the glob built from include and exclude pattern lists; the
\* caller checks NewGlobOk first.
NewGlobOk(include, exclude) ==
    /\ Len(include) # 0
    /\ \A i \in 1..Len(include) : validateGlobPattern(include[i])
    /\ \A i \in 1..Len(exclude) : validateGlobPattern(exclude[i])

NewGlob(include, exclude) ==
    MkGlob(include,
           IF Len(exclude) > 0 THEN <<MkGlob(exclude, NilGlob)>> ELSE NilGlob)

RECURSIVE globsEqual(_, _)
globsEqual(e1, e2) ==
    IF e1 = NilGlob /\ e2 = NilGlob THEN TRUE
    ELSE IF e1 = NilGlob \/ e2 = NilGlob THEN FALSE
    ELSE IF e1[1].include # e2[1].include THEN FALSE
    ELSE globsEqual(e1[1].exclude, e2[1].exclude)

\* Union that keeps the first operand's exclude when the excludes differ
Union_KeepFirstExclude(g1, g2) ==
    MkGlob(g1.include \o g2.include, g1.exclude)

Union(g1, g2) ==
    IF globsEqual(g1.exclude, g2.exclude)
    THEN MkGlob(g1.include \o g2.include, g1.exclude)
    ELSE MkGlob(g1.include \o g2.include, NilGlob)

Difference(g1, g2) ==
    IF g1.exclude = NilGlob
    THEN MkGlob(g1.include, <<g2>>)
    ELSE MkGlob(g1.include, <<Union(g1.exclude[1], g2)>>)

ExcludePatterns(gl) == IF gl.exclude = NilGlob THEN <<>> ELSE gl.exclude[1].include

RECURSIVE matchGlobPattern(_, _)
\* the loop "for i := range parts { if matchGlobPattern(suffix, join(parts[i:])) }"
SomeTailMatches(suffix, parts) ==
    \E i \in 1..Len(parts) :
        matchGlobPattern(suffix, Join(SubSeq(parts, i, Len(parts)), Slash))

matchDoubleStarPattern(pattern, path) ==
    LET parts == Split(pattern, DoubleStar)
        last == parts[Len(parts)]
    IN IF Len(parts) = 1 THEN FilepathMatch(pattern, path)
       ELSE IF parts[1] = <<>>
            THEN IF Len(parts) = 2 /\ parts[2] = <<>> THEN TRUE
                 ELSE SomeTailMatches(TrimPrefix(parts[2], Slash), Split(path, Slash))
       ELSE IF last = <<>> \/ last = Slash
            THEN LET prefix == TrimSuffix(parts[1], Slash)
                 IN HasPrefix(path, prefix \o Slash) \/ path = prefix
       ELSE LET prefix == TrimSuffix(parts[1], Slash)
                suffix == TrimPrefix(parts[2], Slash)
                remaining == TrimPrefix(TrimPrefix(path, prefix), Slash)
            IN IF ~HasPrefix(path, prefix) /\ prefix # <<>> THEN FALSE
               ELSE SomeTailMatches(suffix, Split(remaining, Slash))

matchGlobPattern(pattern, path) ==
    IF Contains(pattern, DoubleStar)
    THEN matchDoubleStarPattern(pattern, path)
    ELSE FilepathMatch(pattern, path)

\* Matches without the exclude loop
Matches_IgnoreExclude(gl, path) ==
    \E i \in 1..Len(gl.include) : matchGlobPattern(gl.include[i], path)

\* the include loop, then the exclude loop over g.exclude.include
Matches(gl, path) ==
    LET matched == \E i \in 1..Len(gl.include) : matchGlobPattern(gl.include[i], path)
    IN IF ~matched THEN FALSE
       ELSE IF gl.exclude # NilGlob
               /\ \E i \in 1..Len(gl.exclude[1].include) :
                      matchGlobPattern(gl.exclude[1].include[i], path)
            THEN FALSE
       ELSE TRUE

WildcardChars == {"*", "?", "[", "{"}

RECURSIVE LiteralParts(_)
LiteralParts(parts) ==
    IF Len(parts) = 0 \/ ContainsAny(Head(parts), WildcardChars) THEN <<>>
    ELSE <<Head(parts)>> \o LiteralParts(Tail(parts))

computeRoot(pattern) == Join(LiteralParts(Split(pattern, Slash)), Slash)

\* Roots: the result list is sorted and duplicate-free, so it is kept as a set
Roots(gl) ==
    LET roots == {computeRoot(gl.include[i]) : i \in 1..Len(gl.include)}
    IN IF <<>> \in roots THEN {<<>>}
       ELSE {root \in roots :
                ~\E other \in roots : other # root /\ HasPrefix(root, other \o Slash)}

(***************************************************************************)
(* Pattern engine: inputs                                                  *)
(***************************************************************************)
\* a path is a chain of directories followed by a file name
DirPool == {<<"a">>, <<"a", "b">>}
FilePool == {<<"f">>, <<"a">>}

RECURSIVE PathsOfDepth(_)
PathsOfDepth(n) ==
    IF n = 1 THEN FilePool
    ELSE {d \o Slash \o p : d \in DirPool, p \in PathsOfDepth(n - 1)}

Paths == UNION {PathsOfDepth(n) : n \in 1..MaxDepth}

\* "**", "a/**/f", "a/*"
PatternPool ==
    { DoubleStar,
      <<"a", "/", "*", "*", "/", "f">>,
      <<"a", "/", "*">> }

\* a pattern NewGlob rejects: "/a"
BadPattern == <<"/", "a">>

IncludeInputs == {<<>>} \cup {<<p>> : p \in PatternPool \cup {BadPattern}}
ExcludeInputs == {<<>>} \cup {<<p>> : p \in PatternPool}

OperandGlobs ==
    {NewGlob(inc, exc) : inc \in {i \in IncludeInputs : NewGlobOk(i, <<>>)},
                         exc \in ExcludeInputs}

\* third operands of the algebraic laws: one include pattern, "a/*", under
\* every exclude list
ThirdGlobs == {NewGlob(<<<<"a", "/", "*">>>>, exc) : exc \in ExcludeInputs}

RECURSIVE GlobSize(_)
GlobSize(gl) ==
    Len(gl.include) + (IF gl.exclude = NilGlob THEN 0 ELSE GlobSize(gl.exclude[1]))

(***************************************************************************)
(* Pattern engine: operations of a script building and querying a glob     *)
(***************************************************************************)
\* gpath, gres and groots hold the argument and result of the last query
\* (Matches or Roots); building a glob clears them.
NoPath == <<>>

ClearQuery ==
    /\ gpath' = NoPath
    /\ gres' = FALSE
    /\ groots' = {}

\* glob(include, exclude): globFn -> NewGlob
GlobNew ==
    \E inc \in IncludeInputs, exc \in ExcludeInputs :
        /\ IF NewGlobOk(inc, exc)
           THEN g' = NewGlob(inc, exc) /\ gop' = "new"
           ELSE g' = g /\ gop' = "new_error"
        /\ ClearQuery
        /\ UNCHANGED <<acc, xvars, avars, mvars, cvars>>

\* the script names the operand glob
GlobLoad ==
    /\ acc' = g
    /\ gop' = "load"
    /\ ClearQuery
    /\ UNCHANGED <<g, xvars, avars, mvars, cvars>>

\* Binary, PLUS: acc + g or g + acc
GlobUnion ==
    \E flip \in BOOLEAN :
        LET r == IF flip THEN Union(g, acc) ELSE Union(acc, g)
        IN /\ GlobSize(r) <= MaxPatterns
           /\ acc' = r
           /\ gop' = "union"
           /\ ClearQuery
           /\ UNCHANGED <<g, xvars, avars, mvars, cvars>>

\* Binary, MINUS: acc - g or g - acc
GlobDifference ==
    \E flip \in BOOLEAN :
        LET r == IF flip THEN Difference(g, acc) ELSE Difference(acc, g)
        IN /\ GlobSize(r) <= MaxPatterns
           /\ acc' = r
           /\ gop' = "difference"
           /\ ClearQuery
           /\ UNCHANGED <<g, xvars, avars, mvars, cvars>>

GlobMatch ==
    \E x \in Paths :
        /\ gpath' = x
        /\ gres' = Matches(acc, x)
        /\ gop' = "match"
        /\ groots' = {}
        /\ UNCHANGED <<g, acc, xvars, avars, mvars, cvars>>

GlobRoots ==
    /\ groots' = Roots(acc)
    /\ gop' = "roots"
    /\ gpath' = NoPath
    /\ gres' = FALSE
    /\ UNCHANGED <<g, acc, xvars, avars, mvars, cvars>>

GlobNext ==
    \/ GlobNew
    \/ GlobLoad
    \/ GlobUnion
    \/ GlobDifference
    \/ GlobMatch
    \/ GlobRoots

(***************************************************************************)
(* Pattern engine: properties                                              *)
(***************************************************************************)
SomeIncludeMatches(gl, path) ==
    \E i \in 1..Len(gl.include) : matchGlobPattern(gl.include[i], path)

SomeExcludeMatches(gl, path) ==
    \E i \in 1..Len(ExcludePatterns(gl)) : matchGlobPattern(ExcludePatterns(gl)[i], path)

\* C1: Matches(g, x) is true exactly when x satisfies at least one include
\* pattern of g and no pattern of g's exclude list.
C1_MatchIncludeNotExclude ==
    gop = "match" =>
        (gres <=> (SomeIncludeMatches(acc, gpath) /\ ~SomeExcludeMatches(acc, gpath)))

\* C1 witness: a path an include pattern accepts and an exclude pattern rejects
C1_Witness ==
    /\ gop = "match"
    /\ SomeIncludeMatches(acc, gpath)
    /\ SomeExcludeMatches(acc, gpath)
    /\ ~gres

\* C2: if a matches x and b does not, Difference(Union(a, b), b) matches x
\* (a is the built glob, b the operand glob, x the path last matched).
C2_DifferenceOfUnion ==
    (gop = "match" /\ Matches(acc, gpath) /\ ~Matches(g, gpath))
        => Matches(Difference(Union(acc, g), g), gpath)

C3Agree(a, b, c, x) ==
    /\ Matches(Union(a, b), x) = Matches(Union(b, a), x)
    /\ Matches(Union(Union(a, b), c), x) = Matches(Union(a, Union(b, c)), x)
    /\ Matches(Difference(Difference(a, b), c), x)
           = Matches(Difference(a, Union(b, c)), x)

\* C3: Union is commutative and associative on the match result, and
\* Difference(Difference(a,b),c) agrees with Difference(a,Union(b,c)), for the
\* built glob, the operand glob and a third glob, on the path last matched.
C3_SetAlgebraOrderIndependent ==
    gop = "match" =>
        \A c \in ThirdGlobs :
            /\ C3Agree(acc, g, c, gpath)
            /\ C3Agree(g, acc, c, gpath)
            /\ C3Agree(g, c, acc, gpath)

\* C3 witness: two globs with different, non-nil excludes, whose union
\* drops the exclude, queried on a path the union matches
C3_Witness ==
    /\ gop = "match"
    /\ acc.exclude # NilGlob
    /\ g.exclude # NilGlob
    /\ ~globsEqual(acc.exclude, g.exclude)
    /\ Matches(Union(acc, g), gpath)
    /\ ~Matches(acc, gpath)

\* the meaning the specification gives a double-star pattern: the path's
\* leading segments are the literal prefix, and some suffix of the remaining
\* segments (possibly none of them) matches the suffix pattern
DoubleStarIntended(pattern, path) ==
    LET parts == Split(pattern, DoubleStar)
        prefix == TrimSuffix(parts[1], Slash)
        suffix == TrimPrefix(parts[2], Slash)
        prefSegs == IF prefix = <<>> THEN <<>> ELSE Split(prefix, Slash)
        pathSegs == Split(path, Slash)
        rest == SubSeq(pathSegs, Len(prefSegs) + 1, Len(pathSegs))
    IN /\ Len(prefSegs) <= Len(pathSegs)
       /\ SubSeq(pathSegs, 1, Len(prefSegs)) = prefSegs
       /\ \E i \in 1..(Len(rest) + 1) :
              FilepathMatch(suffix, Join(SubSeq(rest, i, Len(rest)), Slash))

\* C4: a pattern containing the double-star token matches a path exactly when
\* the path lies under the literal prefix directory and some suffix of the
\* remaining segments matches the suffix pattern.
C4_DoubleStarSegments ==
    (/\ gop = "match"
     /\ Len(acc.include) = 1
     /\ acc.exclude = NilGlob
     /\ Contains(acc.include[1], DoubleStar))
        => (gres <=> DoubleStarIntended(acc.include[1], gpath))

Beneath(path, root) ==
    root = <<>> \/ path = root \/ HasPrefix(path, root \o Slash)

\* C5: every path a glob matches is equal to, or lies beneath, one of the
\* paths returned by Roots.
C5_RootsCoverMatches ==
    (gop = "match" /\ gres) => \E r \in Roots(acc) : Beneath(gpath, r)

(***************************************************************************)
(* transform.Transformation values of the file engine                      *)
(* [kind, before, after, paths, overwrite, original]; original is <<>> or  *)
(* <<t>>, the back-reference a Noop placeholder carries.                   *)
(***************************************************************************)
NoOriginal == <<>>

MkMove(before, after, paths, overwrite) ==
    [kind |-> "move", before |-> before, after |-> after, paths |-> paths,
     overwrite |-> overwrite, original |-> NoOriginal]

MkReplace(before, after, paths) ==
    [kind |-> "replace", before |-> before, after |-> after, paths |-> paths,
     overwrite |-> FALSE, original |-> NoOriginal]

NewNoopTransformation(t) ==
    [kind |-> "noop", before |-> <<>>, after |-> <<>>, paths |-> NilGlob,
     overwrite |-> FALSE, original |-> <<t>>]

\* Move.Reverse that forgets the glob filter of the original
MoveReverse_DropPaths(m) ==
    IF m.overwrite THEN NewNoopTransformation(m)
    ELSE MkMove(m.after, m.before, AllFiles, FALSE)

MoveReverse(m) ==
    IF m.overwrite THEN NewNoopTransformation(m)
    ELSE MkMove(m.after, m.before, m.paths, FALSE)

\* Replace.Reverse that forgets the glob filter of the original
ReplaceReverse_DropPaths(r) == MkReplace(r.after, r.before, AllFiles)

ReplaceReverse(r) == MkReplace(r.after, r.before, r.paths)

NoopReverse(n) == IF n.original # NoOriginal THEN n.original[1] ELSE n

MkRemove(paths) ==
    [kind |-> "remove", before |-> <<>>, after |-> <<>>, paths |-> paths,
     overwrite |-> FALSE, original |-> NoOriginal]

\* Remove.Reverse: Remove is not reversible
RemoveReverse(r) == NewNoopTransformation(r)

MkCopy(before, after, paths, overwrite) ==
    [kind |-> "copy", before |-> before, after |-> after, paths |-> paths,
     overwrite |-> overwrite, original |-> NoOriginal]

\* Copy.Reverse: a Remove over a Glob literal, built without NewGlob
CopyReverse(c) ==
    MkRemove(MkGlob(<<c.after, c.after \o Slash \o DoubleStar>>, NilGlob))

MkVerifyMatch(regex, paths, verifyNoMatch, alsoOnReversal, failureMessage) ==
    [kind |-> "verify_match", regex |-> regex, paths |-> paths,
     verifyNoMatch |-> verifyNoMatch, alsoOnReversal |-> alsoOnReversal,
     failureMessage |-> failureMessage, original |-> NoOriginal]

VerifyMatchReverse(v) ==
    IF v.alsoOnReversal THEN v ELSE NewNoopTransformation(v)

Reverse(t) ==
    CASE t.kind = "move" -> MoveReverse(t)
      [] t.kind = "replace" -> ReplaceReverse(t)
      [] t.kind = "remove" -> RemoveReverse(t)
      [] t.kind = "copy" -> CopyReverse(t)
      [] t.kind = "verify_match" -> VerifyMatchReverse(t)
      [] OTHER -> NoopReverse(t)

\* the directories above a path
Ancestors(p) ==
    LET segs == Split(p, Slash)
    IN {Join(SubSeq(segs, 1, k), Slash) : k \in 1..(Len(segs) - 1)}

\* the entries filepath.WalkDir visits below the workdir: every file of the
\* tree and every directory above one
WalkEntries(t) == DOMAIN t \cup UNION {Ancestors(p) : p \in DOMAIN t}

\* Remove.Apply: the matching entries are collected, then each is removed
\* with os.RemoveAll, which takes a directory with everything beneath it
RemoveApply(r, t) ==
    LET filesToRemove == {e \in WalkEntries(t) : Matches(r.paths, e)}
        kept == {p \in DOMAIN t :
                    \A e \in filesToRemove : p # e /\ ~HasPrefix(p, e \o Slash)}
    IN [p \in kept |-> t[p]]

\* strings.ReplaceAll with an empty old string: new is inserted before every
\* character and at the end
RECURSIVE InsertAround(_, _)
InsertAround(s, new) ==
    IF Len(s) = 0 THEN new
    ELSE new \o <<Head(s)>> \o InsertAround(Tail(s), new)

RECURSIVE ReplaceAll(_, _, _)
ReplaceAll(s, old, new) ==
    IF Len(old) = 0 THEN InsertAround(s, new)
    ELSE LET i == Index(s, old)
         IN IF i = 0 THEN s
            ELSE SubSeq(s, 1, i - 1) \o new
                     \o ReplaceAll(SubSeq(s, i + Len(old), Len(s)), old, new)

\* Replace.Apply: the walk over the regular files of the working tree
ReplaceApply(r, t) ==
    [p \in DOMAIN t |->
        IF r.paths # NilGlob /\ ~Matches(r.paths, p) THEN t[p]
        ELSE ReplaceAll(t[p], r.before, r.after)]

\* the path of every regular file the working tree can hold, in the order
\* of filepath.WalkDir: a/f, f
TreeWalkOrder == <<<<"a", "/", "f">>, <<"f">>>>

\* regexp.FindIndex for a regex without metacharacters: the start of the
\* leftmost occurrence, 0 for nil
FindIndex(regex, content) == Index(content, regex)

\* countLines: the newlines of data
countLines(data) == Cardinality({i \in 1..Len(data) : data[i] = "\n"})

\* the entry VerifyMatch.Apply appends for one offending file
VerifyEntry(v, relPath, content) ==
    LET start == FindIndex(v.regex, content)
    IN IF v.verifyNoMatch
       THEN [file |-> relPath, line |-> countLines(SubSeq(content, 1, start - 1)) + 1,
             match |-> v.regex, message |-> v.failureMessage]
       ELSE [file |-> relPath, line |-> 0, match |-> <<>>,
             message |-> v.failureMessage]

\* the files the walk of VerifyMatch.Apply reports, in the order of the walk
VerifyOffending(v, t) ==
    LET Offends(p) ==
            /\ p \in DOMAIN t
            /\ Matches(v.paths, p)
            /\ (v.verifyNoMatch <=> FindIndex(v.regex, t[p]) # 0)
    IN SelectSeq(TreeWalkOrder, Offends)

\* VerifyMatch.Apply that gives up at the first offending file
VerifyMatchApply_FirstOnly(v, t) ==
    LET Report(files) ==
            IF files = <<>> THEN <<>>
            ELSE <<VerifyEntry(v, files[1], t[files[1]])>>
    IN Report(VerifyOffending(v, t))

\* VerifyMatch.Apply: the Errors of the VerifyMatchError returned, <<>> for
\* nil; the working tree is only read
VerifyMatchApply(v, t) ==
    LET Report(files) ==
            [i \in 1..Len(files) |-> VerifyEntry(v, files[i], t[files[i]])]
    IN Report(VerifyOffending(v, t))

(***************************************************************************)
(* File engine: inputs and operations                                      *)
(***************************************************************************)
\* most Reverse() calls chained on one constructed transformation
MaxReverse == 2
\* longest file content, in characters
MaxContent == 3

\* "f", "a/f"
TreeFiles == {<<"f">>, <<"a", "/", "f">>}

\* "", "x", "y", "xy"
TextPool == {<<>>, <<"x">>, <<"y">>, <<"x", "y">>}

\* move endpoints: "a", "ab"
DirArgs == {<<"a">>, <<"a", "b">>}

\* paths arguments: omitted (all files), or glob(["a/*"])
PathsArgs == {AllFiles, NewGlob(<<<<"a", "/", "*">>>>, <<>>)}

\* paths arguments of core.remove: all files, glob(["a/*"]), or
\* glob(["**"], exclude = ["a/f"])
RemoveArgs ==
    {AllFiles, NewGlob(<<<<"a", "/", "*">>>>, <<>>),
     NewGlob(<<DoubleStar>>, <<<<"a", "/", "f">>>>)}

XfNone ==
    [kind |-> "none", before |-> <<>>, after |-> <<>>, paths |-> NilGlob,
     overwrite |-> FALSE, original |-> NoOriginal]

\* core.move(before, after, paths, overwrite): moveFn
XfNewMove ==
    \E before \in DirArgs, after \in DirArgs, paths \in PathsArgs, overwrite \in BOOLEAN :
        /\ IF before = after
           THEN /\ xop' = "new_error"
                /\ UNCHANGED <<xf, xorig, xrevs, flog>>
           ELSE /\ xf' = MkMove(before, after, paths, overwrite)
                /\ xorig' = xf'
                /\ xrevs' = 0
                /\ flog' = <<>>
                /\ xop' = "new"
        /\ UNCHANGED <<tree, fs, xerr, gvars, avars, mvars, cvars>>

\* core.replace(before, after, paths): replaceFn
XfNewReplace ==
    \E before \in TextPool, after \in TextPool, paths \in PathsArgs :
        /\ xf' = MkReplace(before, after, paths)
        /\ xorig' = xf'
        /\ xrevs' = 0
        /\ xop' = "new"
        /\ UNCHANGED <<tree, fvars, gvars, avars, mvars, cvars>>

\* core.remove(paths): removeFn
XfNewRemove ==
    \E paths \in RemoveArgs :
        /\ xf' = MkRemove(paths)
        /\ xorig' = xf'
        /\ xrevs' = 0
        /\ xop' = "new"
        /\ UNCHANGED <<tree, fvars, gvars, avars, mvars, cvars>>

\* Remove.Apply
XfApplyRemove ==
    /\ xf.kind = "remove"
    /\ xerr = <<>>
    /\ tree' = RemoveApply(xf, tree)
    /\ xop' = "apply"
    /\ UNCHANGED <<xf, xorig, xrevs, fvars, gvars, avars, mvars, cvars>>

\* t.Reverse()
XfReverse ==
    /\ xf.kind # "none"
    /\ xrevs < MaxReverse
    /\ xf' = Reverse(xf)
    /\ xrevs' = xrevs + 1
    /\ xop' = "reverse"
    /\ UNCHANGED <<xorig, tree, fvars, gvars, avars, mvars, cvars>>

\* Replace.Apply
XfApplyReplace ==
    /\ xf.kind = "replace"
    /\ xerr = <<>>
    /\ LET t == ReplaceApply(xf, tree)
       IN /\ \A p \in DOMAIN t : Len(t[p]) <= MaxContent
          /\ tree' = t
    /\ xop' = "apply"
    /\ UNCHANGED <<xf, xorig, xrevs, fvars, gvars, avars, mvars, cvars>>

\* NoopTransformation.Apply
XfApplyNoop ==
    /\ xf.kind = "noop"
    /\ xerr = <<>>
    /\ xop' = "apply"
    /\ UNCHANGED <<xf, xorig, xrevs, tree, fvars, gvars, avars, mvars, cvars>>

\* destinations of core.copy: "a", "ab", "" (the workdir), "/a"
CopyDestinations == DirArgs \cup {<<>>, <<"/", "a">>}

\* core.copy(before, after, paths, overwrite): copyFn
XfNewCopy ==
    \E before \in DirArgs, after \in CopyDestinations, paths \in PathsArgs, overwrite \in BOOLEAN :
        /\ IF before = after
           THEN /\ xop' = "new_error"
                /\ UNCHANGED <<xf, xorig, xrevs>>
           ELSE /\ xf' = MkCopy(before, after, paths, overwrite)
                /\ xorig' = xf'
                /\ xrevs' = 0
                /\ xop' = "new"
        /\ UNCHANGED <<tree, fvars, gvars, avars, mvars, cvars>>

\* regex arguments of core.verify_match: "x", "y"
RegexArgs == {<<"x">>, <<"y">>}

\* failure_message arguments: omitted, "m"
FailureMessages == {<<>>, <<"m">>}

\* core.verify_match(regex, paths, verify_no_match, also_on_reversal,
\* failure_message): verifyMatchFn
XfNewVerifyMatch ==
    \E regex \in RegexArgs, paths \in PathsArgs, verifyNoMatch \in BOOLEAN, alsoOnReversal \in BOOLEAN, failureMessage \in FailureMessages :
        /\ xf' = MkVerifyMatch(regex, paths, verifyNoMatch, alsoOnReversal, failureMessage)
        /\ xorig' = xf'
        /\ xrevs' = 0
        /\ xop' = "new"
        /\ UNCHANGED <<tree, fvars, gvars, avars, mvars, cvars>>

\* VerifyMatch.Apply
XfApplyVerifyMatch ==
    /\ xf.kind = "verify_match"
    /\ xerr = <<>>
    /\ xerr' = VerifyMatchApply(xf, tree)
    /\ xop' = "apply"
    /\ UNCHANGED <<xf, xorig, xrevs, tree, fs, flog, gvars, avars, mvars, cvars>>

XfNext ==
    \/ XfNewMove
    \/ XfNewReplace
    \/ XfNewRemove
    \/ XfApplyRemove
    \/ XfReverse
    \/ XfApplyReplace
    \/ XfApplyNoop

\* core.copy, its reverses and their application
CopyNext ==
    \/ XfNewCopy
    \/ XfReverse
    \/ XfApplyRemove
    \/ XfApplyNoop

\* the working trees a verification can meet: any of the files f and a/f,
\* each holding "x", "y" or "xy"
VerifyTrees ==
    UNION {[D -> {<<"x">>, <<"y">>, <<"x", "y">>}] : D \in SUBSET TreeFiles}

\* core.verify_match, its reverses and their application
VerifyNext ==
    \/ XfNewVerifyMatch
    \/ XfReverse
    \/ XfApplyVerifyMatch
    \/ XfApplyNoop

(***************************************************************************)
(* File engine: properties                                                 *)
(***************************************************************************)
\* C6: for a Move m with overwrite=false, m.Reverse().Reverse() is a Move
\* with the same before, after and paths and overwrite=false.
C6_MoveReverseTwice ==
    (xorig.kind = "move" /\ ~xorig.overwrite /\ xrevs = 2)
        => /\ xf.kind = "move"
           /\ xf.before = xorig.before
           /\ xf.after = xorig.after
           /\ xf.paths = xorig.paths
           /\ xf.overwrite = FALSE

\* C6 witness: a filtered, non-overwriting Move reversed twice
C6_Witness ==
    /\ xorig.kind = "move"
    /\ ~xorig.overwrite
    /\ xorig.paths # AllFiles
    /\ xrevs = 2
    /\ xop = "reverse"

\* C7: r.Reverse().Reverse() leaves the same file contents as r when applied
\* to the same working tree.
C7_ReplaceReverseTwice ==
    (xorig.kind = "replace" /\ xrevs = 2)
        => /\ xf.kind = "replace"
           /\ ReplaceApply(xf, tree) = ReplaceApply(xorig, tree)

\* C7 witness: a filtered Replace reversed twice whose application changes
\* one file of the tree and leaves a file outside the filter alone
C7_Witness ==
    /\ xorig.kind = "replace"
    /\ xorig.paths # AllFiles
    /\ xrevs = 2
    /\ xop = "reverse"
    /\ ReplaceApply(xorig, tree) # tree
    /\ ReplaceApply(xorig, tree)[<<"f">>] = tree[<<"f">>]

C20Step ==
    (xop' = "apply" /\ xf.kind = "remove") =>
        /\ \A e \in WalkEntries(tree') : ~Matches(xf.paths, e)
        /\ \A p \in DOMAIN tree :
               ~Matches(xf.paths, p) => (p \in DOMAIN tree' /\ tree'[p] = tree[p])

\* C20: after Remove.Apply no path matching the pattern set remains in the
\* working tree, and no file the pattern set does not match has been deleted.
C20_RemoveOnlyMatching == [][C20Step]_vars

(***************************************************************************)
(* authoring.Author: parsing and formatting of "Name <email>"              *)
(***************************************************************************)
WhiteSpace == {" ", "\t", "\n", "\r"}

RECURSIVE TrimLeft(_)
TrimLeft(s) ==
    IF Len(s) > 0 /\ Head(s) \in WhiteSpace THEN TrimLeft(Tail(s)) ELSE s

RECURSIVE TrimRight(_)
TrimRight(s) ==
    IF Len(s) > 0 /\ s[Len(s)] \in WhiteSpace
    THEN TrimRight(SubSeq(s, 1, Len(s) - 1))
    ELSE s

\* strings.TrimSpace
TrimSpace(s) == TrimRight(TrimLeft(s))

\* doubleQuotedPattern / singleQuotedPattern: ^q.*q$ ('.' excludes newline)
Quoted(s, q) ==
    /\ Len(s) >= 2
    /\ s[1] = q
    /\ s[Len(s)] = q
    /\ \A i \in 1..Len(s) : s[i] # "\n"

NoAuthor == [ok |-> FALSE, name |-> <<>>, email |-> <<>>]

\* ParseAuthor: quotes stripped, then ^([^<]+)<([^>]*)>$, both groups
\* trimmed, an empty name rejected
ParseAuthor(s) ==
    LET author == IF Quoted(s, "\"") \/ Quoted(s, "'")
                  THEN SubSeq(s, 2, Len(s) - 1)
                  ELSE s
        n == Len(author)
        i == Index(author, <<"<">>)
        matched == /\ i >= 2
                   /\ author[n] = ">"
                   /\ ~Contains(SubSeq(author, i + 1, n - 1), <<">">>)
        name == TrimSpace(SubSeq(author, 1, i - 1))
        email == TrimSpace(SubSeq(author, i + 1, n - 1))
    IN IF s = <<>> THEN NoAuthor
       ELSE IF ~matched THEN NoAuthor
       ELSE IF name = <<>> THEN NoAuthor
       ELSE [ok |-> TRUE, name |-> name, email |-> email]

\* Author.String: "%s <%s>"
AuthorString(a) == a.name \o <<" ", "<">> \o a.email \o <<">">>

(***************************************************************************)
(* transform.ErrorTransformation and metadata.MapAuthor                    *)
(***************************************************************************)
NoError == ""
ErrNotFound == "cannot find a mapping for author"
ErrNotReversible == "author mapping doesn't have reversible enabled"
ErrMailMappings ==
    "author mapping is not reversible because it contains mail -> author mappings"
ErrNameMappings ==
    "author mapping is not reversible because it contains name -> author mappings"
ErrDuplicateTarget == "non-reversible author map: duplicate target author"

NewErrorTransformation(err, t) ==
    [kind |-> "error", err |-> err, original |-> <<t>>]

\* ErrorTransformation.Apply that reports success
ErrorApply_ReturnsNil(e, c) == [err |-> NoError, ctx |-> c]

\* ErrorTransformation.Apply: the stored error, the Context untouched
ErrorApply(e, c) == [err |-> e.err, ctx |-> c]

ErrorReverse(e) == IF e.original # NoOriginal THEN e.original[1] ELSE e

\* NoopTransformation.Apply
NoopApply(n, c) == [err |-> NoError, ctx |-> c]

MkMapAuthor(authorToAuthor, mailToAuthor, nameToAuthor, reversible, noopReverse, failIfNotFound, reverseFailIfNotFound, mapAll) ==
    [kind |-> "map_author",
     authorToAuthor |-> authorToAuthor,
     mailToAuthor |-> mailToAuthor,
     nameToAuthor |-> nameToAuthor,
     reversible |-> reversible,
     noopReverse |-> noopReverse,
     failIfNotFound |-> failIfNotFound,
     reverseFailIfNotFound |-> reverseFailIfNotFound,
     mapAll |-> mapAll]

EmptyMap == <<>>

\* the keys of the authors dict that parse as a full author
FullKeys(authors) == {k \in DOMAIN authors : ParseAuthor(k).ok}

\* the keys classified email-only: not a full author, containing "@"
MailKeys(authors) ==
    {k \in DOMAIN authors : ~ParseAuthor(k).ok /\ Contains(k, <<"@">>)}

\* the keys classified name-only
NameKeys(authors) ==
    {k \in DOMAIN authors : ~ParseAuthor(k).ok /\ ~Contains(k, <<"@">>)}

\* NewMapAuthor fails on a value that is not a full author
NewMapAuthorOk(authors) == \A k \in DOMAIN authors : ParseAuthor(authors[k]).ok

\* the authorToAuthor tables the loop of NewMapAuthor can build: keys and
\* values are stored in their String() form, and when several keys have the
\* same String() form the entry written last stays (the iteration order of a
\* Go map is unspecified)
AuthorTables(authors) ==
    LET canon(k) == AuthorString(ParseAuthor(k))
        keys == {canon(k) : k \in FullKeys(authors)}
        targets == {canon(authors[k]) : k \in FullKeys(authors)}
    IN {t \in [keys -> targets] :
            \A c \in keys : \E k \in FullKeys(authors) :
                canon(k) = c /\ t[c] = canon(authors[k])}

\* NewMapAuthor: the MapAuthor values the constructor can return
NewMapAuthor(authors, reversible, noopReverse, failIfNotFound, reverseFailIfNotFound, mapAll) ==
    {MkMapAuthor(t,
                 [k \in MailKeys(authors) |-> ParseAuthor(authors[k])],
                 [k \in NameKeys(authors) |-> ParseAuthor(authors[k])],
                 reversible, noopReverse, failIfNotFound,
                 reverseFailIfNotFound, mapAll) : t \in AuthorTables(authors)}

NotFound(m, authorStr) ==
    IF m.failIfNotFound
    THEN [err |-> ErrNotFound, author |-> <<>>]
    ELSE [err |-> NoError, author |-> authorStr]

\* getMappedAuthor that tries the name-only keys before the email-only keys
getMappedAuthor_NameBeforeEmail(m, authorStr) ==
    IF authorStr \in DOMAIN m.authorToAuthor
    THEN [err |-> NoError, author |-> m.authorToAuthor[authorStr]]
    ELSE LET author == ParseAuthor(authorStr)
         IN IF ~author.ok THEN NotFound(m, authorStr)
            ELSE IF author.name \in DOMAIN m.nameToAuthor
            THEN [err |-> NoError,
                  author |-> AuthorString(m.nameToAuthor[author.name])]
            ELSE IF author.email \in DOMAIN m.mailToAuthor
            THEN [err |-> NoError,
                  author |-> AuthorString(m.mailToAuthor[author.email])]
            ELSE NotFound(m, authorStr)

\* MapAuthor.getMappedAuthor: exact match, then email, then name
getMappedAuthor(m, authorStr) ==
    IF authorStr \in DOMAIN m.authorToAuthor
    THEN [err |-> NoError, author |-> m.authorToAuthor[authorStr]]
    ELSE LET author == ParseAuthor(authorStr)
         IN IF ~author.ok THEN NotFound(m, authorStr)
            ELSE IF author.email \in DOMAIN m.mailToAuthor
            THEN [err |-> NoError,
                  author |-> AuthorString(m.mailToAuthor[author.email])]
            ELSE IF author.name \in DOMAIN m.nameToAuthor
            THEN [err |-> NoError,
                  author |-> AuthorString(m.nameToAuthor[author.name])]
            ELSE NotFound(m, authorStr)

\* MapAuthor.Apply: ctx.Author is replaced first; with mapAll the changes are
\* then mapped in order, and the first miss returns with the earlier changes
\* (and ctx.Author) already written
MapAuthorApply(m, c) ==
    LET first == getMappedAuthor(m, c.Author)
        n == Len(c.Changes)
        mapped == [i \in 1..n |-> getMappedAuthor(m, c.Changes[i].Author)]
        bad == {i \in 1..n : mapped[i].err # NoError}
        stop == IF bad = {} THEN n + 1
                ELSE CHOOSE i \in bad : \A j \in bad : i <= j
    IN IF first.err # NoError THEN [err |-> first.err, ctx |-> c]
       ELSE IF ~m.mapAll
       THEN [err |-> NoError, ctx |-> [c EXCEPT !.Author = first.author]]
       ELSE [err |-> IF stop <= n THEN mapped[stop].err ELSE NoError,
             ctx |-> [c EXCEPT
                 !.Author = first.author,
                 !.Changes = [i \in 1..n |->
                     IF i < stop
                     THEN [c.Changes[i] EXCEPT !.MappedAuthor = mapped[i].author]
                     ELSE c.Changes[i]]]]

HasDuplicateTarget(table) ==
    \E k1 \in DOMAIN table, k2 \in DOMAIN table :
        k1 # k2 /\ table[k1] = table[k2]

ReverseTable(table) ==
    [v \in {table[k] : k \in DOMAIN table} |->
        CHOOSE k \in DOMAIN table : table[k] = v]

ReversedMapAuthor(m, table) ==
    MkMapAuthor(table, EmptyMap, EmptyMap, m.reversible, m.noopReverse,
                m.reverseFailIfNotFound, m.failIfNotFound, m.mapAll)

\* MapAuthor.Reverse that copies the table instead of inverting it
MapAuthorReverse_KeepDirection(m) ==
    IF m.noopReverse THEN NewNoopTransformation(m)
    ELSE IF ~m.reversible THEN NewErrorTransformation(ErrNotReversible, m)
    ELSE IF DOMAIN m.mailToAuthor # {} THEN NewErrorTransformation(ErrMailMappings, m)
    ELSE IF DOMAIN m.nameToAuthor # {} THEN NewErrorTransformation(ErrNameMappings, m)
    ELSE IF HasDuplicateTarget(m.authorToAuthor)
    THEN NewErrorTransformation(ErrDuplicateTarget, m)
    ELSE ReversedMapAuthor(m, m.authorToAuthor)

\* MapAuthor.Reverse without the duplicate-target check: a later key
\* overwrites the earlier one in the reverse table
MapAuthorReverse_NoDuplicateCheck(m) ==
    IF m.noopReverse THEN NewNoopTransformation(m)
    ELSE IF ~m.reversible THEN NewErrorTransformation(ErrNotReversible, m)
    ELSE IF DOMAIN m.mailToAuthor # {} THEN NewErrorTransformation(ErrMailMappings, m)
    ELSE IF DOMAIN m.nameToAuthor # {} THEN NewErrorTransformation(ErrNameMappings, m)
    ELSE ReversedMapAuthor(m, ReverseTable(m.authorToAuthor))

MapAuthorReverse(m) ==
    IF m.noopReverse THEN NewNoopTransformation(m)
    ELSE IF ~m.reversible THEN NewErrorTransformation(ErrNotReversible, m)
    ELSE IF DOMAIN m.mailToAuthor # {} THEN NewErrorTransformation(ErrMailMappings, m)
    ELSE IF DOMAIN m.nameToAuthor # {} THEN NewErrorTransformation(ErrNameMappings, m)
    ELSE IF HasDuplicateTarget(m.authorToAuthor)
    THEN NewErrorTransformation(ErrDuplicateTarget, m)
    ELSE ReversedMapAuthor(m, ReverseTable(m.authorToAuthor))

\* Transformation.Reverse of the message engine's values
MetadataReverse(t) ==
    CASE t.kind = "map_author" -> MapAuthorReverse(t)
      [] t.kind = "error" -> ErrorReverse(t)
      [] OTHER -> NoopReverse(t)

\* Transformation.Apply of the message engine's values
MetadataApply(t, c) ==
    CASE t.kind = "map_author" -> MapAuthorApply(t, c)
      [] t.kind = "error" -> ErrorApply(t, c)
      [] OTHER -> NoopApply(t, c)

(***************************************************************************)
(* Author mapping: inputs and operations                                   *)
(***************************************************************************)
\* most entries of an authors dict
MaxEntries == 2

\* "A <a@x>"
AuthorA == <<"A", " ", "<", "a", "@", "x", ">">>
\* "A<a@x>": another spelling of the same author
AuthorASquashed == <<"A", "<", "a", "@", "x", ">">>
\* "B <b@x>"
AuthorB == <<"B", " ", "<", "b", "@", "x", ">">>
\* "C <c@x>"
AuthorC == <<"C", " ", "<", "c", "@", "x", ">">>
\* "a@x": an email-only key
MailA == <<"a", "@", "x">>
\* "A": a name-only key, and not a valid author value
NameA == <<"A">>

KeyPool == {AuthorA, AuthorASquashed, AuthorB, MailA, NameA}
ValuePool == {AuthorB, AuthorC, NameA}

\* the authors dicts a configuration can pass
AuthorsInputs ==
    UNION {[keys -> ValuePool] :
              keys \in {ks \in SUBSET KeyPool : Cardinality(ks) <= MaxEntries}}

ContextAuthors == {AuthorA, AuthorB, NameA}

MkChange(author) == [Author |-> author, MappedAuthor |-> <<>>]

\* the changes of a pass: none, or one by "A <a@x>" followed by one whose
\* author string is the bare name "A"
ChangesInputs == {<<>>, <<MkChange(AuthorA), MkChange(NameA)>>}

\* transform.NewContext
NewContext == [Author |-> <<>>, Message |-> <<>>, Changes |-> <<>>]

MaNone == [kind |-> "none"]

\* no message transformation applied yet
MtNone == [kind |-> "none"]

\* metadata.map_author(authors, reversible, noop_reverse, fail_if_not_found,
\* reverse_fail_if_not_found, map_all_changes): mapAuthorFn, evaluated once
\* when the configuration is loaded
MapAuthorFn ==
    /\ aop = "init"
    /\ \E authors \in AuthorsInputs, reversible \in BOOLEAN, noopReverse \in BOOLEAN,
          failIfNotFound \in BOOLEAN, reverseFailIfNotFound \in BOOLEAN,
          mapAll \in BOOLEAN :
        /\ IF \/ reverseFailIfNotFound /\ ~reversible
              \/ reverseFailIfNotFound /\ noopReverse
              \/ ~NewMapAuthorOk(authors)
           THEN /\ ma' = MaNone
                /\ aop' = "new_error"
           ELSE /\ ma' \in NewMapAuthor(authors, reversible, noopReverse,
                                        failIfNotFound, reverseFailIfNotFound, mapAll)
                /\ aop' = "new"
        /\ maorig' = ma'
        /\ marevs' = 0
        /\ aerr' = NoError
        /\ UNCHANGED <<ctx, gvars, xvars, mvars, cvars>>

\* the origin hands the engine a fresh Context for the next pass
SetContext ==
    /\ ma.kind # "none"
    /\ \E author \in ContextAuthors, changes \in ChangesInputs :
        /\ ctx' = [NewContext EXCEPT !.Author = author, !.Changes = changes]
        /\ aerr' = NoError
        /\ aop' = "context"
        /\ UNCHANGED <<ma, maorig, marevs, gvars, xvars, mvars, cvars>>

\* t.Reverse() on the current transformation
AuthorReverse ==
    /\ ma.kind # "none"
    /\ marevs < MaxReverse
    /\ ma' = MetadataReverse(ma)
    /\ marevs' = marevs + 1
    /\ aop' = "reverse"
    /\ UNCHANGED <<maorig, ctx, aerr, gvars, xvars, mvars, cvars>>

\* t.Apply(ctx) on the current transformation
AuthorApply ==
    /\ ma.kind # "none"
    /\ LET r == MetadataApply(ma, ctx)
       IN /\ aerr' = r.err
          /\ ctx' = r.ctx
    /\ aop' = "apply"
    /\ UNCHANGED <<ma, maorig, marevs, gvars, xvars, mvars, cvars>>

AuthorNext ==
    \/ MapAuthorFn
    \/ SetContext
    \/ AuthorReverse
    \/ AuthorApply

(***************************************************************************)
(* Author mapping: properties                                              *)
(***************************************************************************)
\* the state right after the first Reverse() of a constructed MapAuthor m
\* (maorig) that has only full-author keys and is reversible: ma is
\* m.Reverse(), itself a MapAuthor
ReversedOnce ==
    /\ aop = "reverse"
    /\ marevs = 1
    /\ maorig.kind = "map_author"
    /\ maorig.reversible
    /\ DOMAIN maorig.mailToAuthor = {}
    /\ DOMAIN maorig.nameToAuthor = {}
    /\ ma.kind = "map_author"

\* x resolved with r.Reverse(), and that result resolved with r, is x again
RoundTrip(r, x) ==
    LET rr == MetadataReverse(r)
        first == getMappedAuthor(rr, x)
    IN /\ rr.kind = "map_author"
       /\ first.err = NoError
       /\ getMappedAuthor(r, first.author) = [err |-> NoError, author |-> x]

\* C8 as stated: for a reversible MapAuthor m built with only full-author keys
\* and every author x in the image of its mapping, resolving x with
\* m.Reverse().Reverse() and then with m.Reverse() yields x again.
C8_RoundTripOverImage ==
    ReversedOnce =>
        \A x \in {maorig.authorToAuthor[k] : k \in DOMAIN maorig.authorToAuthor} :
            RoundTrip(ma, x)

\* C8 amended: the same round trip for every author x that is a key of the
\* mapping (in its "Name <email>" form).
C8_RoundTripOverKeys ==
    ReversedOnce => \A x \in DOMAIN maorig.authorToAuthor : RoundTrip(ma, x)

\* C8 witness: a reversed mapping with a key that maps to another author
C8_Witness ==
    /\ ReversedOnce
    /\ \E x \in DOMAIN maorig.authorToAuthor : maorig.authorToAuthor[x] # x

\* every Context of the input pool
AllContexts ==
    {[NewContext EXCEPT !.Author = a, !.Changes = cs] :
        a \in ContextAuthors, cs \in ChangesInputs}

C10Step ==
    /\ (aop' = "reverse" /\ ma.kind = "map_author" /\ ~ma.noopReverse
            /\ ~ma.reversible)
       => /\ ma'.kind = "error"
          /\ ma'.err = ErrNotReversible
          /\ ctx' = ctx
          /\ aerr' = aerr
    /\ (aop' = "apply" /\ ma.kind = "error")
       => /\ aerr' = ma.err
          /\ aerr' # NoError
          /\ ctx' = ctx

LookupAuthors == ContextAuthors \cup {AuthorASquashed}

\* the result the priority order prescribes for author string x under m
ByPriority(m, x) ==
    LET a == ParseAuthor(x)
    IN IF x \in DOMAIN m.authorToAuthor
       THEN [err |-> NoError, author |-> m.authorToAuthor[x]]
       ELSE IF a.ok /\ a.email \in DOMAIN m.mailToAuthor
       THEN [err |-> NoError, author |-> AuthorString(m.mailToAuthor[a.email])]
       ELSE IF a.ok /\ a.name \in DOMAIN m.nameToAuthor
       THEN [err |-> NoError, author |-> AuthorString(m.nameToAuthor[a.name])]
       ELSE IF m.failIfNotFound
       THEN [err |-> ErrNotFound, author |-> <<>>]
       ELSE [err |-> NoError, author |-> x]

\* C19: MapAuthor resolves an author by an exact full-author key, else by an
\* email-only key equal to its email, else by a name-only key equal to its
\* name; on a miss the author passes through, or Apply fails when
\* fail_if_not_found is set.
C19_LookupPriority ==
    ma.kind = "map_author" =>
        /\ \A x \in LookupAuthors : getMappedAuthor(ma, x) = ByPriority(ma, x)
        /\ \A c \in AllContexts \cup {ctx} :
               LET want == ByPriority(ma, c.Author)
                   got == MapAuthorApply(ma, c)
               IN IF want.err # NoError
                  THEN got.err = want.err
                  ELSE got.ctx.Author = want.author

\* C19 witness: a mapping with an email-only and a name-only key that both fit
\* "A <a@x>" and have different targets has been applied, and the Context's
\* author is the target of the email-only key
C19_Witness ==
    /\ aop = "apply"
    /\ ma.kind = "map_author"
    /\ MailA \in DOMAIN ma.mailToAuthor
    /\ NameA \in DOMAIN ma.nameToAuthor
    /\ ma.mailToAuthor[MailA] # ma.nameToAuthor[NameA]
    /\ aerr = NoError
    /\ ctx.Author = AuthorString(ma.mailToAuthor[MailA])

C11Step ==
    /\ (aop' = "apply" /\ ma.kind = "map_author" /\ aerr' # NoError) => ctx' = ctx
    /\ (mop' = "apply" /\ merr' # NoError) => mctx' = mctx

\* C11: whenever the Apply of MapAuthor, ExposeLabel, Scrubber, ReplaceMessage
\* or AddHeader returns an error, the Context is exactly as it was before the
\* call.
C11_NoPartialApply == [][C11Step]_vars

(***************************************************************************)
(* transform/context.go: the labels of a Context                           *)
(* Context.Labels and Change.Labels are functions from a label name to     *)
(* the list of its values; <<>> is the empty map.                          *)
(***************************************************************************)
UpperCase ==
    {"A", "B", "C", "D", "E", "F", "G", "H", "I", "J", "K", "L", "M",
     "N", "O", "P", "Q", "R", "S", "T", "U", "V", "W", "X", "Y", "Z"}

LowerCase ==
    {"a", "b", "c", "d", "e", "f", "g", "h", "i", "j", "k", "l", "m",
     "n", "o", "p", "q", "r", "s", "t", "u", "v", "w", "x", "y", "z"}

Digits == <<"0", "1", "2", "3", "4", "5", "6", "7", "8", "9">>

\* [A-Za-z] and [A-Za-z0-9_-]
NameStart == UpperCase \cup LowerCase
NameChars == NameStart \cup {Digits[i] : i \in 1..10} \cup {"_", "-"}

\* \s of Go's regexp
RegexSpace == {" ", "\t", "\n", "\f", "\r"}

NewLine == <<"\n">>

SetMin(S) == CHOOSE x \in S : \A y \in S : x <= y
SetMax(S) == CHOOSE x \in S : \A y \in S : y <= x

\* the last position of the line that holds position v (v - 1 for an empty line)
LineEnd(s, v) ==
    LET nl == {j \in v..Len(s) : s[j] = "\n"}
    IN IF nl = {} THEN Len(s) ELSE SetMin(nl) - 1

\* the last position of the longest run of characters of class starting at i
\* (i - 1 when there is none)
RunEnd(s, i, class) ==
    SetMax({j \in (i - 1)..Len(s) : \A k \in i..j : s[k] \in class})

NoLabelMatch == [ok |-> FALSE, name |-> <<>>, value |-> <<>>, end |-> 0]

\* labelPattern, (?m)^([A-Za-z][A-Za-z0-9_-]*)[:=]\s*(.+)$, tried at the line
\* start i: the name is the whole run of name characters, \s* takes as much
\* white space (newlines included) as leaves (.+) a character that is not a
\* newline, and (.+) runs to the end of its line
LabelMatchAt(s, i) ==
    LET Matched(nameEnd, v) ==
            [ok |-> TRUE, name |-> SubSeq(s, i, nameEnd),
             value |-> SubSeq(s, v, LineEnd(s, v)), end |-> LineEnd(s, v)]
        AfterSpace(nameEnd, starts) ==
            IF starts = {} THEN NoLabelMatch ELSE Matched(nameEnd, SetMax(starts))
        AfterSeparator(nameEnd, spaceEnd) ==
            AfterSpace(nameEnd, {v \in (nameEnd + 2)..(spaceEnd + 1) :
                                    v <= Len(s) /\ s[v] # "\n"})
        AfterName(nameEnd) ==
            IF ~(nameEnd < Len(s) /\ s[nameEnd + 1] \in {":", "="}) THEN NoLabelMatch
            ELSE AfterSeparator(nameEnd, RunEnd(s, nameEnd + 2, RegexSpace))
    IN IF ~(i <= Len(s) /\ s[i] \in NameStart) THEN NoLabelMatch
       ELSE AfterName(RunEnd(s, i, NameChars))

\* labelPattern.FindAllStringSubmatch(s, -1), searched from the line start i
\* on: (?m)^ lets a match begin at a line start only, and a match ends at the
\* end of a line, so the search goes from line start to line start
RECURSIVE FindLabels(_, _)
FindLabels(s, i) ==
    LET Rest(m) ==
            IF m.ok
            THEN <<[name |-> m.name, value |-> m.value]>> \o FindLabels(s, m.end + 2)
            ELSE FindLabels(s, LineEnd(s, i) + 2)
    IN IF i > Len(s) THEN <<>> ELSE Rest(LabelMatchAt(s, i))

\* the values of the label lines of a message that carry the name, trimmed
MessageLabelValues(message, name) ==
    LET Values(ms) ==
            [k \in 1..Cardinality({j \in 1..Len(ms) : ms[j].name = name}) |->
                LET j == CHOOSE j \in 1..Len(ms) :
                             /\ ms[j].name = name
                             /\ Cardinality({h \in 1..j : ms[h].name = name}) = k
                IN TrimSpace(ms[j].value)]
    IN Values(FindLabels(message, 1))

\* the values a label map holds for a name (none when the key is absent)
MapValues(labels, name) == IF name \in DOMAIN labels THEN labels[name] ELSE <<>>

\* the changes that hold at least one value for the name, in list order
ChangesWith(changes, name) ==
    {i \in 1..Len(changes) : Len(MapValues(changes[i].Labels, name)) > 0}

\* Context.GetLabel that searches the changes before the message
GetLabel_ChangesBeforeMessage(c, name) ==
    LET Lookup(inMessage, inChanges) ==
            IF Len(MapValues(c.Labels, name)) > 0 THEN c.Labels[name][1]
            ELSE IF inChanges # {} THEN c.Changes[SetMin(inChanges)].Labels[name][1]
            ELSE IF Len(inMessage) > 0 THEN inMessage[1]
            ELSE <<>>
    IN Lookup(MessageLabelValues(c.Message, name), ChangesWith(c.Changes, name))

\* Context.GetLabel: the pre-populated labels, then the message, then the
\* changes; "" when the label is nowhere
GetLabel(c, name) ==
    LET Lookup(inMessage, inChanges) ==
            IF Len(MapValues(c.Labels, name)) > 0 THEN c.Labels[name][1]
            ELSE IF Len(inMessage) > 0 THEN inMessage[1]
            ELSE IF inChanges # {} THEN c.Changes[SetMin(inChanges)].Labels[name][1]
            ELSE <<>>
    IN Lookup(MessageLabelValues(c.Message, name), ChangesWith(c.Changes, name))

\* a map with one key set
MapPut(labels, name, values) ==
    [k \in DOMAIN labels \cup {name} |-> IF k = name THEN values ELSE labels[k]]

\* delete(labels, name)
MapDelete(labels, name) == [k \in DOMAIN labels \ {name} |-> labels[k]]

\* Context.AddLabel: the value is appended to Labels[name] and the line
\* name + separator + value is appended to the message
AddLabel(c, name, value, separator) ==
    LET line == name \o separator \o value
        message == IF c.Message # <<>> /\ ~HasSuffix(c.Message, NewLine)
                   THEN c.Message \o NewLine
                   ELSE c.Message
    IN [c EXCEPT !.Labels = MapPut(c.Labels, name, Append(MapValues(c.Labels, name), value)),
                 !.Message = message \o line \o NewLine]

\* (?m)^name[:=].*\n? replaced by "", on a text that starts at a line start
RECURSIVE RemoveLabelLines(_, _)
RemoveLabelLines(s, name) ==
    IF s = <<>> THEN <<>>
    ELSE LET e == LineEnd(s, 1)
             line == SubSeq(s, 1, e)
             newline == IF e < Len(s) THEN NewLine ELSE <<>>
             rest == SubSeq(s, e + 2, Len(s))
             hit == /\ HasPrefix(line, name)
                    /\ Len(line) > Len(name)
                    /\ line[Len(name) + 1] \in {":", "="}
         IN IF hit THEN RemoveLabelLines(rest, name)
            ELSE line \o newline \o RemoveLabelLines(rest, name)

\* Context.RemoveLabel
RemoveLabel(c, name) ==
    [c EXCEPT !.Labels = MapDelete(c.Labels, name),
              !.Message = RemoveLabelLines(c.Message, name)]

\* Change.FirstLineMessage
FirstLineMessage(change) ==
    LET idx == Index(change.Message, NewLine)
    IN IF idx # 0 THEN SubSeq(change.Message, 1, idx - 1) ELSE change.Message

(***************************************************************************)
(* metadata/transforms.go: label templating                                *)
(***************************************************************************)
ErrCannotFindLabel == "cannot find label in message or changes"
ErrScrubberNoMatch == "scrubber regex didn't match for description"

\* \$\{([A-Za-z][A-Za-z0-9_-]*)\} tried at the start of s: the length of the
\* token, 0 when there is none
TokenLen(s) ==
    IF ~(Len(s) >= 4 /\ s[1] = "$" /\ s[2] = "{" /\ s[3] \in NameStart) THEN 0
    ELSE LET nameEnd == RunEnd(s, 3, NameChars)
         IN IF nameEnd < Len(s) /\ s[nameEnd + 1] = "}" THEN nameEnd + 1 ELSE 0

\* the label names of the tokens of a template, in order
RECURSIVE TokenLabels(_)
TokenLabels(s) ==
    IF s = <<>> THEN <<>>
    ELSE LET n == TokenLen(s)
         IN IF n = 0 THEN TokenLabels(Tail(s))
            ELSE <<SubSeq(s, 3, n - 1)>> \o TokenLabels(SubSeq(s, n + 1, Len(s)))

\* ReplaceAllStringFunc of both resolvers: a token whose label has a value
\* becomes the value, any other token is returned as it stands
RECURSIVE ResolveTokens(_, _)
ResolveTokens(s, c) ==
    LET Resolved(n, value) ==
            (IF value = <<>> THEN SubSeq(s, 1, n) ELSE value)
                \o ResolveTokens(SubSeq(s, n + 1, Len(s)), c)
        From(n) ==
            IF n = 0 THEN <<Head(s)>> \o ResolveTokens(Tail(s), c)
            ELSE Resolved(n, GetLabel(c, SubSeq(s, 3, n - 1)))
    IN IF s = <<>> THEN <<>> ELSE From(TokenLen(s))

\* some token of the template has no value in the Context
HasUnresolved(template, c) ==
    LET Missing(labels) == \E i \in 1..Len(labels) : GetLabel(c, labels[i]) = <<>>
    IN Missing(TokenLabels(template))

\* resolveTemplateLabels that never reports a missing label
resolveTemplateLabels_NeverFails(template, c, ignoreLabelNotFound) ==
    [err |-> NoError, text |-> ResolveTokens(template, c)]

\* resolveTemplateLabels: ("", error) when a label is missing and
\* ignoreLabelNotFound is false
resolveTemplateLabels(template, c, ignoreLabelNotFound) ==
    IF HasUnresolved(template, c) /\ ~ignoreLabelNotFound
    THEN [err |-> ErrCannotFindLabel, text |-> <<>>]
    ELSE [err |-> NoError, text |-> ResolveTokens(template, c)]

\* SquashNotes.resolveTemplate: no error, no ignore option
resolveTemplate(template, c) == ResolveTokens(template, c)

(***************************************************************************)
(* metadata/transforms.go: the message transformations                     *)
(* Apply returns [err, ctx]: the error ("" = nil) and the Context after    *)
(* the call.                                                               *)
(***************************************************************************)
MkReplaceMessage(message, ignoreLabelNotFound) ==
    [kind |-> "replace_message", message |-> message,
     ignoreLabelNotFound |-> ignoreLabelNotFound]

\* ReplaceMessage.Apply
ReplaceMessageApply(r, c) ==
    LET Result(res) ==
            IF res.err # NoError THEN [err |-> res.err, ctx |-> c]
            ELSE IF res.text # <<>> \/ ~r.ignoreLabelNotFound
            THEN [err |-> NoError, ctx |-> [c EXCEPT !.Message = res.text]]
            ELSE [err |-> NoError, ctx |-> c]
    IN Result(resolveTemplateLabels(r.message, c, r.ignoreLabelNotFound))

MkAddHeader(text, ignoreLabelNotFound, newLine) ==
    [kind |-> "add_header", text |-> text,
     ignoreLabelNotFound |-> ignoreLabelNotFound, newLine |-> newLine]

\* AddHeader.Apply
AddHeaderApply(a, c) ==
    LET Result(res) ==
            IF res.err # NoError THEN [err |-> res.err, ctx |-> c]
            ELSE IF res.text = <<>> /\ a.ignoreLabelNotFound
            THEN [err |-> NoError, ctx |-> c]
            ELSE [err |-> NoError,
                  ctx |-> [c EXCEPT !.Message =
                              res.text \o (IF a.newLine THEN NewLine ELSE <<>>)
                                  \o c.Message]]
    IN Result(resolveTemplateLabels(a.text, c, a.ignoreLabelNotFound))

MkScrubber(regexes, replacement, msgIfNoMatch, failIfNoMatch) ==
    [kind |-> "scrubber", regexes |-> regexes, replacement |-> replacement,
     msgIfNoMatch |-> msgIfNoMatch, failIfNoMatch |-> failIfNoMatch]

\* A regex of the model is a literal text (no metacharacter), and a
\* replacement holds no '$': re.MatchString and re.ReplaceAllString are then
\* substring search and replacement of the occurrences from left to right.
RegexMatches(re, s) == Contains(s, re)
RegexReplaceAll(re, s, replacement) == ReplaceAll(s, re, replacement)

\* the loop of Scrubber.Apply over the regexes: [message, matched]
RECURSIVE ScrubLoop(_, _, _, _)
ScrubLoop(regexes, replacement, message, matched) ==
    IF regexes = <<>> THEN [message |-> message, matched |-> matched]
    ELSE LET newMessage == RegexReplaceAll(Head(regexes), message, replacement)
         IN IF newMessage # message
            THEN ScrubLoop(Tail(regexes), replacement, newMessage, TRUE)
            ELSE ScrubLoop(Tail(regexes), replacement, message, matched)

\* Scrubber.Apply that puts msg_if_no_match in place even when
\* fail_if_no_match is set
ScrubberApply_NoFail(s, c) ==
    LET Result(r) ==
            IF r.matched THEN [err |-> NoError, ctx |-> [c EXCEPT !.Message = r.message]]
            ELSE [err |-> NoError, ctx |-> [c EXCEPT !.Message = s.msgIfNoMatch]]
    IN Result(ScrubLoop(s.regexes, s.replacement, c.Message, FALSE))

\* Scrubber.Apply
ScrubberApply(s, c) ==
    LET Result(r) ==
            IF r.matched THEN [err |-> NoError, ctx |-> [c EXCEPT !.Message = r.message]]
            ELSE IF s.failIfNoMatch THEN [err |-> ErrScrubberNoMatch, ctx |-> c]
            ELSE IF s.msgIfNoMatch # <<>>
            THEN [err |-> NoError, ctx |-> [c EXCEPT !.Message = s.msgIfNoMatch]]
            ELSE [err |-> NoError, ctx |-> c]
    IN Result(ScrubLoop(s.regexes, s.replacement, c.Message, FALSE))

MkSaveAuthor(label, separator) ==
    [kind |-> "save_author", label |-> label, separator |-> separator]

\* SaveAuthor.Apply
SaveAuthorApply(s, c) ==
    IF c.Author # <<>>
    THEN [err |-> NoError, ctx |-> AddLabel(c, s.label, c.Author, s.separator)]
    ELSE [err |-> NoError, ctx |-> c]

MkRestoreAuthor(label, separator, searchAllChanges) ==
    [kind |-> "restore_author", label |-> label, separator |-> separator,
     searchAllChanges |-> searchAllChanges]

\* the author string RestoreAuthor.Apply works on: the last value of the
\* label in the last change searched that has one (only the first change is
\* searched unless searchAllChanges), else Context.GetLabel
RestoreAuthorValue(r, c) ==
    LET LastValue(values) == values[Len(values)]
        FromChanges(with) ==
            IF with = {} THEN <<>> ELSE LastValue(c.Changes[SetMax(with)].Labels[r.label])
        Value(authorStr) == IF authorStr = <<>> THEN GetLabel(c, r.label) ELSE authorStr
    IN Value(FromChanges(ChangesWith(c.Changes, r.label)
                             \cap (IF r.searchAllChanges THEN 1..Len(c.Changes) ELSE {1})))

\* RestoreAuthor.Apply that takes the label's value as the author unparsed
RestoreAuthorApply_Unparsed(r, c) ==
    LET Result(authorStr) ==
            IF authorStr # <<>>
            THEN [err |-> NoError,
                  ctx |-> RemoveLabel([c EXCEPT !.Author = authorStr], r.label)]
            ELSE [err |-> NoError, ctx |-> c]
    IN Result(RestoreAuthorValue(r, c))

\* RestoreAuthor.Apply
RestoreAuthorApply(r, c) ==
    LET Restored(author) ==
            IF author.ok
            THEN [err |-> NoError,
                  ctx |-> RemoveLabel([c EXCEPT !.Author = AuthorString(author)], r.label)]
            ELSE [err |-> NoError, ctx |-> c]
        Result(authorStr) ==
            IF authorStr # <<>> THEN Restored(ParseAuthor(authorStr))
            ELSE [err |-> NoError, ctx |-> c]
    IN Result(RestoreAuthorValue(r, c))

MkSquashNotes(prefix, max, compact, showRef, showAuthor, showDescription, oldestFirst, useMerge) ==
    [kind |-> "squash_notes", prefix |-> prefix, max |-> max, compact |-> compact,
     showRef |-> showRef, showAuthor |-> showAuthor,
     showDescription |-> showDescription, oldestFirst |-> oldestFirst,
     useMerge |-> useMerge]

\* %d of a number that is not negative
RECURSIVE Itoa(_)
Itoa(n) ==
    IF n < 10 THEN <<Digits[n + 1]>>
    ELSE Itoa(n \div 10) \o <<Digits[(n % 10) + 1]>>

\* cutIfLong
cutIfLong(msg) ==
    IF Len(msg) < 60 THEN msg ELSE SubSeq(msg, 1, 57) \o <<".", ".", ".">>

\* slices.Reverse
ReverseSeq(s) == [i \in 1..Len(s) |-> s[Len(s) - i + 1]]

\* "  - ", the start of a compact entry, and "--\n", the start of a verbose one
CompactMark == <<" ", " ", "-", " ">>
VerboseMark == <<"-", "-", "\n">>

\* the changes SquashNotes.Apply lists from: reversed when oldestFirst, the
\* merges filtered out unless useMerge
SquashChanges(s, c) ==
    LET ordered == IF s.oldestFirst THEN ReverseSeq(c.Changes) ELSE c.Changes
    IN IF s.useMerge THEN ordered ELSE SelectSeq(ordered, LAMBDA ch : ~ch.IsMerge)

\* the text written for changes[i] by one round of the loop
SquashEntry(s, changes, i) ==
    LET ch == changes[i]
        author == IF ch.MappedAuthor # <<>> THEN ch.MappedAuthor ELSE ch.Author
        by == IF s.showAuthor THEN <<<<"b", "y", " ">> \o author>> ELSE <<>>
    IN IF s.compact
       THEN CompactMark
                \o Join((IF s.showRef THEN <<ch.Ref>> ELSE <<>>)
                            \o (IF s.showDescription
                                THEN <<cutIfLong(FirstLineMessage(ch))>>
                                ELSE <<>>)
                            \o by, <<" ">>)
                \o NewLine
       ELSE VerboseMark
                \o Join((IF s.showRef THEN <<ch.Ref>>
                         ELSE <<<<"C", "h", "a", "n", "g", "e", " ">> \o Itoa(i) \o <<" ", "o", "f", " ">> \o Itoa(Len(changes))>>)
                            \o by, <<" ">>)
                \o (IF s.showDescription THEN <<":", "\n", "\n">> \o ch.Message ELSE <<>>)
                \o NewLine

\* the entries of changes[i..], the loop ending once max entries are written
RECURSIVE SquashEntries(_, _, _)
SquashEntries(s, changes, i) ==
    IF i > Len(changes) \/ i - 1 >= s.max THEN <<>>
    ELSE SquashEntry(s, changes, i) \o SquashEntries(s, changes, i + 1)

\* "  (And %d more changes)\n"
MoreChanges(remaining) == <<" ", " ", "(", "A", "n", "d", " ">> \o Itoa(remaining) \o <<" ", "m", "o", "r", "e", " ", "c", "h", "a", "n", "g", "e", "s", ")", "\n">>

\* the message of SquashNotes.Apply, the trailing line counting total changes
SquashMessage(s, c, changes, total) ==
    IF s.max = 0 THEN resolveTemplate(s.prefix, c)
    ELSE resolveTemplate(s.prefix, c)
             \o SquashEntries(s, changes, 1)
             \o (IF total > s.max THEN MoreChanges(total - s.max) ELSE <<>>)

\* SquashNotes.Apply whose trailing line counts the filtered merges as well
SquashNotesApply_CountMerges(s, c) ==
    [err |-> NoError,
     ctx |-> [c EXCEPT !.Message = SquashMessage(s, c, SquashChanges(s, c), Len(c.Changes))]]

\* SquashNotes.Apply that reverses ctx.Changes.Current itself for oldest_first
\* (no slices.Clone) and keeps the filtered list in its place
SquashNotesApply_InPlace(s, c) ==
    LET Result(changes) ==
            [err |-> NoError,
             ctx |-> [c EXCEPT !.Message = SquashMessage(s, c, changes, Len(changes)),
                               !.Changes = IF s.max = 0 THEN c.Changes ELSE changes]]
    IN Result(SquashChanges(s, c))

\* SquashNotes.Apply: the list it walks is a clone when it is reversed and a
\* new slice when it is filtered, so ctx.Changes.Current is only read
SquashNotesApply(s, c) ==
    LET Result(changes) ==
            [err |-> NoError,
             ctx |-> [c EXCEPT !.Message = SquashMessage(s, c, changes, Len(changes))]]
    IN Result(SquashChanges(s, c))

(***************************************************************************)
(* Message engine: inputs and operations                                   *)
(***************************************************************************)
\* most Apply calls made on one Context
MaxApplies == 2
\* largest max of a squash_notes
MaxSquash == 2

LabelL == <<"L">>

\* "hv": a body without label lines
BodyText == <<"h", "v">>
\* "L=v\n": a label line whose value is no author
PlainLabelLine == <<"L", "=", "v", "\n">>
\* "t\nL: B <b@x>": a body followed by a label line whose value is an author
AuthorLabelLine == <<"t", "\n", "L", ":", " ", "B", " ", "<", "b", "@", "x", ">">>

MessageInputs == {<<>>, BodyText, PlainLabelLine, AuthorLabelLine}

\* the changes of a pass: a plain change, a merge that carries L=w, and a
\* change with a mapped author that carries L=A and L=C <c@x>
ChangeOne ==
    [Ref |-> <<"r", "1">>, Author |-> AuthorA, Message |-> <<"m", "1", "\n", "x">>, MappedAuthor |-> <<>>,
     IsMerge |-> FALSE, Labels |-> <<>>]
ChangeTwo ==
    [Ref |-> <<"r", "2">>, Author |-> AuthorB, Message |-> <<"m", "2">>, MappedAuthor |-> <<>>,
     IsMerge |-> TRUE, Labels |-> MapPut(<<>>, LabelL, <<<<"w">>>>)]
ChangeThree ==
    [Ref |-> <<"r", "3">>, Author |-> AuthorA, Message |-> <<"m", "3">>, MappedAuthor |-> AuthorB,
     IsMerge |-> FALSE, Labels |-> MapPut(<<>>, LabelL, <<NameA, AuthorC>>)]

MessageChanges == {<<>>, <<ChangeOne, ChangeTwo, ChangeThree>>}

\* the Contexts a pass can start from: NewContext with the message, the
\* author and the changes of the origin filled in
ContextInputs ==
    {[Author |-> author, Message |-> message, Changes |-> changes, Labels |-> <<>>] :
        author \in {<<>>, AuthorA}, message \in MessageInputs, changes \in MessageChanges}

\* "${L}" and "${L}!": templates with one token; "t": a template without
TokenL == <<"$", "{", "L", "}">>
TemplateInputs == {TokenL, TokenL \o <<"!">>, <<"t">>}

\* metadata.squash_notes(prefix, max, compact, oldest_first, use_merge)
SquashNotesInputs ==
    {MkSquashNotes(prefix, max, flags[1], TRUE, TRUE, TRUE, flags[2], flags[3]) :
        prefix \in {TokenL \o NewLine, <<"p", "\n">>}, max \in 0..MaxSquash,
        flags \in {<<TRUE, FALSE, TRUE>>, <<TRUE, FALSE, FALSE>>, <<FALSE, TRUE, TRUE>>}}

\* metadata.replace_message(message, ignore_label_not_found)
ReplaceMessageInputs ==
    {MkReplaceMessage(message, ignore) : message \in TemplateInputs, ignore \in BOOLEAN}

\* metadata.add_header(text, ignore_label_not_found, new_line)
AddHeaderInputs ==
    {MkAddHeader(text, ignore, newLine) :
        text \in {TokenL, <<"t">>}, ignore \in BOOLEAN, newLine \in BOOLEAN}

\* metadata.scrubber(regex, replacement, msg_if_no_match, fail_if_no_match);
\* scrubberFn rejects fail_if_no_match together with msg_if_no_match
ScrubberInputs ==
    {MkScrubber(args[1], args[2], mode[1], mode[2]) :
        args \in {<<<<<<"v">>>>, <<>>>>, <<<<<<"v">>>>, <<"v">>>>,
                  <<<<<<"v">>, <<"h", "v">>>>, <<>>>>, <<<<<<"z">>>>, <<"y">>>>},
        mode \in {<<<<>>, FALSE>>, <<<<"n">>, FALSE>>, <<<<>>, TRUE>>}}

\* metadata.save_author(label, separator)
SaveAuthorInputs == {MkSaveAuthor(LabelL, <<"=">>)}

\* metadata.restore_author(label, search_all_changes)
RestoreAuthorInputs ==
    {MkRestoreAuthor(LabelL, <<"=">>, searchAll) : searchAll \in BOOLEAN}

\* the pass can take one more transformation: a failed Apply ends it
MsgReady ==
    /\ mop \in {"context", "apply"}
    /\ merr = NoError
    /\ mcount < MaxApplies

\* the workflow calls t.Apply(ctx), which returns r
MsgApplied(t, r) ==
    /\ mt' = t
    /\ mpre' = mctx
    /\ mctx' = r.ctx
    /\ merr' = r.err
    /\ mop' = "apply"
    /\ mcount' = mcount + 1
    /\ UNCHANGED <<gvars, xvars, avars, cvars>>

ApplySquashNotes ==
    /\ MsgReady
    /\ \E t \in SquashNotesInputs : MsgApplied(t, SquashNotesApply(t, mctx))

ApplySaveAuthor ==
    /\ MsgReady
    /\ \E t \in SaveAuthorInputs : MsgApplied(t, SaveAuthorApply(t, mctx))

ApplyRestoreAuthor ==
    /\ MsgReady
    /\ \E t \in RestoreAuthorInputs : MsgApplied(t, RestoreAuthorApply(t, mctx))

ApplyReplaceMessage ==
    /\ MsgReady
    /\ \E t \in ReplaceMessageInputs : MsgApplied(t, ReplaceMessageApply(t, mctx))

ApplyAddHeader ==
    /\ MsgReady
    /\ \E t \in AddHeaderInputs : MsgApplied(t, AddHeaderApply(t, mctx))

ApplyScrubber ==
    /\ MsgReady
    /\ \E t \in ScrubberInputs : MsgApplied(t, ScrubberApply(t, mctx))

\* metadata.map_author({"A <a@x>": "B <b@x>"}, fail_if_not_found, map_all)
MapAuthorPassInputs ==
    UNION {NewMapAuthor(AuthorA :> AuthorB, TRUE, FALSE, failIfNotFound, FALSE, mapAll) :
              failIfNotFound \in BOOLEAN, mapAll \in BOOLEAN}

ApplyMapAuthor ==
    /\ MsgReady
    /\ \E t \in MapAuthorPassInputs : MsgApplied(t, MapAuthorApply(t, mctx))

MsgNext ==
    \/ ApplySquashNotes
    \/ ApplyMapAuthor
    \/ ApplySaveAuthor
    \/ ApplyRestoreAuthor
    \/ ApplyReplaceMessage
    \/ ApplyAddHeader
    \/ ApplyScrubber

(***************************************************************************)
(* Message engine: properties                                              *)
(***************************************************************************)
\* the last step was the Apply of a transformation of the kind
Applied(kind) == mop = "apply" /\ mt.kind = kind

\* some regex of the scrubber matches the message
SomeRegexMatches(s, message) ==
    \E i \in 1..Len(s.regexes) : RegexMatches(s.regexes[i], message)

\* the regexes applied one after the other, each to the result of the one before
RECURSIVE ScrubInOrder(_, _, _)
ScrubInOrder(regexes, replacement, message) ==
    IF regexes = <<>> THEN message
    ELSE ScrubInOrder(Tail(regexes), replacement,
                      RegexReplaceAll(Head(regexes), message, replacement))

\* C15: if at least one regex of a Scrubber matches the message, Apply
\* succeeds and the message becomes the result of applying the regexes in list
\* order with the replacement; msg_if_no_match and fail_if_no_match have no
\* effect.
C15_ScrubberMatchRewrites ==
    (Applied("scrubber") /\ SomeRegexMatches(mt, mpre.Message)) =>
        /\ merr = NoError
        /\ mctx.Message = ScrubInOrder(mt.regexes, mt.replacement, mpre.Message)

\* C16: if no regex of a Scrubber matches the message, then with
\* fail_if_no_match Apply returns an error and the message is unchanged;
\* otherwise a non-empty msg_if_no_match replaces the message, and an empty one
\* leaves it unchanged.
C16_ScrubberNoMatch ==
    (Applied("scrubber") /\ ~SomeRegexMatches(mt, mpre.Message)) =>
        IF mt.failIfNoMatch
        THEN merr # NoError /\ mctx.Message = mpre.Message
        ELSE /\ merr = NoError
             /\ mctx.Message = (IF mt.msgIfNoMatch # <<>> THEN mt.msgIfNoMatch
                                ELSE mpre.Message)

\* C16 witness: a scrubber with fail_if_no_match has failed on a message that
\* is not empty and that none of its regexes matches
C16_Witness ==
    /\ Applied("scrubber")
    /\ ~SomeRegexMatches(mt, mpre.Message)
    /\ mpre.Message # <<>>
    /\ mt.failIfNoMatch
    /\ merr = ErrScrubberNoMatch

\* the values the label lines of the message hold for the name
ValuesInMessage(c, name) ==
    {MessageLabelValues(c.Message, name)[k] :
        k \in 1..Len(MessageLabelValues(c.Message, name))}

\* the values the label maps of the changes hold for the name
ValuesInChanges(c, name) ==
    UNION {{MapValues(c.Changes[i].Labels, name)[k] :
               k \in 1..Len(MapValues(c.Changes[i].Labels, name))} :
              i \in 1..Len(c.Changes)}

\* C12: labels are derived from the message text: once a transformation has
\* rewritten Context.Message, a label lookup returns nothing or a value present
\* in the new message text or in a Change's labels.
C12_LabelsFollowMessage ==
    (mop = "apply" /\ merr = NoError /\ mctx.Message # mpre.Message) =>
        LET v == GetLabel(mctx, LabelL)
        IN \/ v = <<>>
           \/ v \in ValuesInMessage(mctx, LabelL)
           \/ v \in ValuesInChanges(mctx, LabelL)

\* the values the label maps of the changes hold for the name, in list order
RECURSIVE ChangeValues(_, _)
ChangeValues(changes, name) ==
    IF changes = <<>> THEN <<>>
    ELSE MapValues(Head(changes).Labels, name) \o ChangeValues(Tail(changes), name)

\* the first value of the label over the pre-populated labels, then the label
\* lines of the message, then the changes; "" when there is none
FirstValue(c, name) ==
    LET First(all) == IF all = <<>> THEN <<>> ELSE all[1]
    IN First(MapValues(c.Labels, name) \o MessageLabelValues(c.Message, name)
                 \o ChangeValues(c.Changes, name))

\* C13: a single-value label lookup, and a ${LABEL_NAME} token, resolve to the
\* first value of the label found in the Context's pre-populated labels, then
\* in the label lines of the current message, then in the Changes' label maps
\* in list order.
C13_LookupOrder ==
    /\ mop \in {"context", "apply"} => GetLabel(mctx, LabelL) = FirstValue(mctx, LabelL)
    /\ (Applied("replace_message") /\ mt.message = TokenL
            /\ FirstValue(mpre, LabelL) # <<>>) =>
           (merr = NoError /\ mctx.Message = FirstValue(mpre, LabelL))

\* C13 witness: the token ${L} has been resolved in a Context whose
\* pre-populated labels, message and changes all hold L, with different first
\* values, and the message is now the pre-populated value
C13_Witness ==
    /\ Applied("replace_message")
    /\ mt.message = TokenL
    /\ Len(MapValues(mpre.Labels, LabelL)) > 0
    /\ Len(MessageLabelValues(mpre.Message, LabelL)) > 0
    /\ Len(ChangeValues(mpre.Changes, LabelL)) > 0
    /\ mpre.Labels[LabelL][1] # MessageLabelValues(mpre.Message, LabelL)[1]
    /\ MessageLabelValues(mpre.Message, LabelL)[1] # ChangeValues(mpre.Changes, LabelL)[1]
    /\ mctx.Message = mpre.Labels[LabelL][1]

\* the template of a label-templating transformation
TemplateOf(t) ==
    CASE t.kind = "replace_message" -> t.message
      [] t.kind = "add_header" -> t.text
      [] t.kind = "squash_notes" -> t.prefix

\* its ignore_label_not_found; squash_notes has no such option, which is the
\* option not being set
IgnoreLabelNotFound(t) ==
    IF t.kind = "squash_notes" THEN FALSE ELSE t.ignoreLabelNotFound

\* C14: in ReplaceMessage, AddHeader and the SquashNotes prefix, a token
\* ${LABEL_NAME} that cannot be resolved makes Apply fail when
\* ignore_label_not_found is false and is left verbatim in the output when it
\* is true.
C14_UnresolvedToken ==
    (mop = "apply" /\ mt.kind \in {"replace_message", "add_header", "squash_notes"}
         /\ HasUnresolved(TemplateOf(mt), mpre)) =>
        IF IgnoreLabelNotFound(mt) THEN merr = NoError /\ Contains(mctx.Message, TokenL)
        ELSE merr # NoError

\* the number of occurrences of sub in s, counted from left to right
Occurrences(s, sub) == Len(Split(s, sub)) - 1

\* the changes eligible for listing: all, or those that are no merges when
\* merges are excluded
Eligible(s, c) == {i \in 1..Len(c.Changes) : s.useMerge \/ ~c.Changes[i].IsMerge}

\* "(And ": the start of the trailing line, after its indentation
AndMark == <<"(", "A", "n", "d", " ">>

\* C17: SquashNotes with max > 0 over n eligible changes emits exactly
\* min(n, max) entries and, exactly when n > max, one trailing line
\* "(And <n - max> more changes)"; with max = 0 it emits only the prefix.
C17_SquashCap ==
    Applied("squash_notes") =>
        LET n == Cardinality(Eligible(mt, mpre))
            mark == IF mt.compact THEN CompactMark ELSE VerboseMark
        IN /\ merr = NoError
           /\ HasPrefix(mctx.Message, ResolveTokens(mt.prefix, mpre))
           /\ IF mt.max = 0 THEN mctx.Message = ResolveTokens(mt.prefix, mpre)
              ELSE /\ Occurrences(mctx.Message, mark) = (IF n < mt.max THEN n ELSE mt.max)
                   /\ IF n > mt.max
                      THEN /\ HasSuffix(mctx.Message, MoreChanges(n - mt.max))
                           /\ Occurrences(mctx.Message, AndMark) = 1
                      ELSE Occurrences(mctx.Message, AndMark) = 0

\* C17 witness: a squash_notes that excludes merges has listed max = 1 of the
\* two changes that are no merges, out of three changes, and has added the
\* trailing line for the one left
C17_Witness ==
    /\ Applied("squash_notes")
    /\ ~mt.useMerge
    /\ mt.max = 1
    /\ Len(mpre.Changes) = 3
    /\ Cardinality(Eligible(mt, mpre)) = 2
    /\ Occurrences(mctx.Message, CompactMark) = 1
    /\ HasSuffix(mctx.Message, MoreChanges(1))

\* C18: RestoreAuthor overwrites Context.Author and strips the label only when
\* the label's value parses as an author; when it does not parse, Apply still
\* succeeds and leaves Context.Author and the message unchanged.
C18_RestoreOnlyParsed ==
    Applied("restore_author") =>
        /\ merr = NoError
        /\ IF ParseAuthor(RestoreAuthorValue(mt, mpre)).ok
           THEN /\ mctx.Author = AuthorString(ParseAuthor(RestoreAuthorValue(mt, mpre)))
                /\ MessageLabelValues(mctx.Message, mt.label) = <<>>
                /\ mt.label \notin DOMAIN mctx.Labels
           ELSE /\ mctx.Author = mpre.Author
                /\ mctx.Message = mpre.Message

\* C18 witness: a RestoreAuthor has met a label value that is no author ("v",
\* in the message of a Context that has an author) and has returned nil
C18_Witness ==
    /\ Applied("restore_author")
    /\ RestoreAuthorValue(mt, mpre) = <<"v">>
    /\ MessageLabelValues(mpre.Message, mt.label) # <<>>
    /\ mpre.Author # <<>>
    /\ merr = NoError
    /\ mctx = mpre

(***************************************************************************)
(* Move.Apply over a working directory: fs maps every path that exists     *)
(* below the workdir to its entry, a directory or a regular file; the      *)
(* workdir itself is the empty path.                                       *)
(***************************************************************************)
DirEntry == [dir |-> TRUE, data |-> <<>>]

FileEntry(data) == [dir |-> FALSE, data |-> data]

\* os.Stat(path) returns no error
Exists(f, p) == p = <<>> \/ p \in DOMAIN f

IsDir(f, p) == p = <<>> \/ (p \in DOMAIN f /\ f[p].dir)

IsFile(f, p) == p \in DOMAIN f /\ ~f[p].dir

\* the regular files of a working directory, path -> content
FilesOf(f) == [p \in {q \in DOMAIN f : ~f[q].dir} |-> f[p].data]

\* path is dir or lies beneath it
Under(path, dir) == path = dir \/ HasPrefix(path, dir \o Slash)

Dot == <<".">>

\* filepath.Rel(src, path) for a path the walk of src visits
Rel(src, path) ==
    IF path = src THEN Dot ELSE SubSeq(path, Len(src) + 2, Len(path))

\* filepath.Join(dst, relPath)
JoinPath(dst, relPath) ==
    IF relPath = Dot THEN dst ELSE dst \o Slash \o relPath

\* filepath.Dir(path); the workdir for a top-level name
Dir(path) ==
    LET segs == Split(path, Slash)
    IN Join(SubSeq(segs, 1, Len(segs) - 1), Slash)

ErrSourceMissing == "source path does not exist"
ErrDestinationExists == "destination already exists"
ErrParentDirectory == "failed to create parent directory"
ErrCreateDestination == "failed to create destination file"
ErrNotADirectory == "mkdir: not a directory"

\* os.MkdirAll: nil when the directory exists, an error when the path or a
\* parent is a regular file, else the missing directories are created
MkdirAll(f, p) ==
    LET chain == IF p = <<>> THEN {} ELSE Ancestors(p) \cup {p}
    IN IF \E q \in chain : IsFile(f, q)
       THEN [err |-> ErrNotADirectory, fs |-> f]
       ELSE [err |-> NoError,
             fs |-> [q \in DOMAIN f \cup chain |->
                        IF q \in DOMAIN f THEN f[q] ELSE DirEntry]]

\* os.Rename of a regular file; an existing regular file at dst is replaced
Rename(f, src, dst) ==
    [q \in (DOMAIN f \ {src}) \cup {dst} |-> IF q = dst THEN f[src] ELSE f[q]]

\* Move.moveFile: os.Rename onto a directory fails, and so does the
\* copyAndDelete fallback when it opens the directory for writing
moveFile(m, f, src, dst) ==
    IF ~m.overwrite /\ Exists(f, dst)
    THEN [err |-> ErrDestinationExists, fs |-> f]
    ELSE LET Made(r) ==
                 IF r.err # NoError THEN [err |-> ErrParentDirectory, fs |-> f]
                 ELSE IF IsDir(r.fs, dst)
                      THEN [err |-> ErrCreateDestination, fs |-> r.fs]
                      ELSE [err |-> NoError, fs |-> Rename(r.fs, src, dst)]
         IN Made(MkdirAll(f, Dir(dst)))

IsAllFiles(gl) ==
    Len(gl.include) = 1 /\ gl.include[1] = DoubleStar /\ gl.exclude = NilGlob

\* every path of the model in the order of filepath.WalkDir (lexical within
\* each directory, a directory before its entries):
\* a, a/a, a/a/f, a/f, a/g, ab, ab/a, ab/a/f, ab/f, ab/g
WalkOrder ==
    <<<<"a">>, <<"a", "/", "a">>, <<"a", "/", "a", "/", "f">>,
      <<"a", "/", "f">>, <<"a", "/", "g">>,
      <<"a", "b">>, <<"a", "b", "/", "a">>, <<"a", "b", "/", "a", "/", "f">>,
      <<"a", "b", "/", "f">>, <<"a", "b", "/", "g">>>>

\* the entries filepath.WalkDir(src) visits, src first
WalkDir(f, src) ==
    LET Visited(p) == p \in DOMAIN f /\ Under(p, src)
    IN SelectSeq(WalkOrder, Visited)

\* the callback of moveDir run over the entries in order; the first error
\* ends the walk and leaves the files moved so far at the destination
RECURSIVE moveWalk(_, _, _, _, _)
\* the callback of moveDir with the glob matched against the path below the
\* workdir instead of the path relative to the source
moveWalk_MatchFullPath(m, f, src, dst, entries) ==
    IF entries = <<>> THEN [err |-> NoError, fs |-> f]
    ELSE LET path == Head(entries)
             relPath == Rel(src, path)
             dstPath == JoinPath(dst, relPath)
             Walked(r) ==
                 IF r.err # NoError THEN r
                 ELSE moveWalk(m, r.fs, src, dst, Tail(entries))
         IN IF /\ m.paths # NilGlob
               /\ ~IsAllFiles(m.paths)
               /\ ~IsDir(f, path)
               /\ ~Matches(m.paths, path)
            THEN moveWalk(m, f, src, dst, Tail(entries))
            ELSE IF IsDir(f, path) THEN Walked(MkdirAll(f, dstPath))
                 ELSE Walked(moveFile(m, f, path, dstPath))

moveWalk(m, f, src, dst, entries) ==
    IF entries = <<>> THEN [err |-> NoError, fs |-> f]
    ELSE LET path == Head(entries)
             relPath == Rel(src, path)
             dstPath == JoinPath(dst, relPath)
             Walked(r) ==
                 IF r.err # NoError THEN r
                 ELSE moveWalk(m, r.fs, src, dst, Tail(entries))
         IN IF /\ m.paths # NilGlob
               /\ ~IsAllFiles(m.paths)
               /\ ~IsDir(f, path)
               /\ ~Matches(m.paths, relPath)
            THEN moveWalk(m, f, src, dst, Tail(entries))
            ELSE IF IsDir(f, path) THEN Walked(MkdirAll(f, dstPath))
                 ELSE Walked(moveFile(m, f, path, dstPath))

\* Move.removeEmptyDirs: deepest first, every directory beneath dir (dir
\* included) that holds no entry any more is removed
removeEmptyDirs(f, dir) ==
    LET gone == {d \in DOMAIN f :
                    /\ f[d].dir
                    /\ Under(d, dir)
                    /\ \A p \in DOMAIN f : Under(p, d) => f[p].dir}
    IN [p \in DOMAIN f \ gone |-> f[p]]

moveDir(m, f, src, dst) ==
    LET Walked(r) ==
            IF r.err # NoError THEN r
            ELSE [err |-> NoError, fs |-> removeEmptyDirs(r.fs, src)]
    IN Walked(moveWalk(m, f, src, dst, WalkDir(f, src)))

\* Move.Apply: [err, fs]
MoveApply(m, f) ==
    IF ~Exists(f, m.before) THEN [err |-> ErrSourceMissing, fs |-> f]
    ELSE IF IsDir(f, m.before) THEN moveDir(m, f, m.before, m.after)
         ELSE moveFile(m, f, m.before, m.after)

\* most Apply calls made on one constructed Move and its reverses
MaxMoveApplies == 2

\* working directories a pass can start from
\*   a/a/f, a/f, a/g            the destination ab does not exist
\*   a/f, a/g, ab/g             ab exists and holds a file of the same name
\*   a/f, ab/g                  ab exists and holds no file of the same name
\*   a/f, ab (a regular file)
\*   a (a regular file), ab/f
\*   a, ab (regular files)
\*   a (a regular file)
MoveLayouts ==
    {(<<"a">> :> DirEntry) @@ (<<"a", "/", "a">> :> DirEntry)
        @@ (<<"a", "/", "a", "/", "f">> :> FileEntry(<<"x">>))
        @@ (<<"a", "/", "f">> :> FileEntry(<<"y">>))
        @@ (<<"a", "/", "g">> :> FileEntry(<<"x", "y">>)),
     (<<"a">> :> DirEntry) @@ (<<"a", "/", "f">> :> FileEntry(<<"x">>))
        @@ (<<"a", "/", "g">> :> FileEntry(<<"y">>))
        @@ (<<"a", "b">> :> DirEntry)
        @@ (<<"a", "b", "/", "g">> :> FileEntry(<<"x", "y">>)),
     (<<"a">> :> DirEntry) @@ (<<"a", "/", "f">> :> FileEntry(<<"x">>))
        @@ (<<"a", "b">> :> DirEntry)
        @@ (<<"a", "b", "/", "g">> :> FileEntry(<<"y">>)),
     (<<"a">> :> DirEntry) @@ (<<"a", "/", "f">> :> FileEntry(<<"x">>))
        @@ (<<"a", "b">> :> FileEntry(<<"y">>)),
     (<<"a">> :> FileEntry(<<"x">>)) @@ (<<"a", "b">> :> DirEntry)
        @@ (<<"a", "b", "/", "f">> :> FileEntry(<<"y">>)),
     (<<"a">> :> FileEntry(<<"x">>)) @@ (<<"a", "b">> :> FileEntry(<<"y">>)),
     (<<"a">> :> FileEntry(<<"x">>))}

\* Move.Apply on the working directory
XfApplyMove ==
    /\ xf.kind = "move"
    /\ xerr = <<>>
    /\ Len(flog) < MaxMoveApplies
    /\ LET Moved(r) ==
            /\ fs' = r.fs
            /\ xerr' = IF r.err = NoError THEN <<>> ELSE <<r.err>>
       IN Moved(MoveApply(xf, fs))
    /\ flog' = <<[t |-> xf, fs |-> fs]>> \o flog
    /\ xop' = "apply"
    /\ UNCHANGED <<xf, xorig, xrevs, tree, gvars, avars, mvars, cvars>>

MoveNext ==
    \/ XfNewMove
    \/ XfReverse
    \/ XfApplyMove
    \/ XfApplyNoop

(***************************************************************************)
(* Move.Apply: properties                                                  *)
(***************************************************************************)
\* C21: Move.Apply with overwrite=false fails whenever the destination
\* already exists, whether the source is a file or a directory, and never
\* replaces the content of an existing destination file.
C21_MoveFailsOnExistingDestination ==
    (flog # <<>> /\ ~flog[1].t.overwrite) =>
        /\ Exists(flog[1].fs, flog[1].t.after) => xerr # <<>>
        /\ \A p \in DOMAIN flog[1].fs :
               (IsFile(flog[1].fs, p) /\ ~Under(p, flog[1].t.before))
                   => (IsFile(fs, p) /\ fs[p] = flog[1].fs[p])

\* the second half of C21 alone: no file outside the source is replaced
C21_NeverReplaces ==
    (flog # <<>> /\ ~flog[1].t.overwrite) =>
        \A p \in DOMAIN flog[1].fs :
            (IsFile(flog[1].fs, p) /\ ~Under(p, flog[1].t.before))
                => (IsFile(fs, p) /\ fs[p] = flog[1].fs[p])

\* the last two Apply calls were a Move with overwrite=false onto a
\* destination that did not exist, then the Reverse of that Move
MoveThenReverse ==
    /\ Len(flog) >= 2
    /\ flog[2].t.kind = "move"
    /\ ~flog[2].t.overwrite
    /\ ~Exists(flog[2].fs, flog[2].t.after)
    /\ flog[1].t = MoveReverse(flog[2].t)

\* C28: for a Move with overwrite=false whose destination does not exist
\* beforehand, applying the Move and then applying its Reverse leaves the
\* working tree with exactly the original files at their original paths
\* with their original contents.
C28_MoveThenReverseIsNoop ==
    MoveThenReverse =>
        /\ xerr = <<>>
        /\ FilesOf(fs) = FilesOf(flog[2].fs)

\* C28 witness: a filtered Move of a directory took one file of three to the
\* destination and its Reverse brought it back
C28_Witness ==
    /\ MoveThenReverse
    /\ xop = "apply"
    /\ flog[2].t.paths # AllFiles
    /\ FilesOf(flog[1].fs) # FilesOf(flog[2].fs)
    /\ \E p \in DOMAIN flog[1].fs : IsFile(flog[1].fs, p) /\ Under(p, flog[2].t.before)
    /\ \E p \in DOMAIN flog[1].fs : IsFile(flog[1].fs, p) /\ Under(p, flog[2].t.after)
    /\ FilesOf(fs) = FilesOf(flog[2].fs)

\* C28 witness of the unfiltered case: the whole directory moved and the
\* emptied source was pruned before the Reverse restored it
C28_WholeDirectory ==
    /\ MoveThenReverse
    /\ flog[2].t.paths = AllFiles
    /\ IsDir(flog[2].fs, flog[2].t.before)
    /\ ~Exists(flog[1].fs, flog[2].t.before)
    /\ FilesOf(fs) = FilesOf(flog[2].fs)

(***************************************************************************)
(* VerifyMatch and Copy: properties                                        *)
(***************************************************************************)
\* the files of the tree that a VerifyMatch is about and that violate its
\* expectation
Offenders(v, t) ==
    {p \in DOMAIN t :
        /\ Matches(v.paths, p)
        /\ IF v.verifyNoMatch THEN Contains(t[p], v.regex)
           ELSE ~Contains(t[p], v.regex)}

C22Step ==
    (xop' = "apply" /\ xf.kind = "verify_match") =>
        /\ tree' = tree
        /\ Len(xerr') = Cardinality(Offenders(xf, tree))
        /\ {xerr'[i].file : i \in 1..Len(xerr')} = Offenders(xf, tree)

\* C22: VerifyMatch.Apply examines every matched file and fails with one
\* aggregated error holding exactly one entry per offending file, all of
\* them and not just the first; it never modifies the working tree.
C22_VerifyMatchAggregates == [][C22Step]_vars

\* C22 witness: a verification has failed on both files of the tree
C22_Witness ==
    /\ xop = "apply"
    /\ xf.kind = "verify_match"
    /\ Len(xerr) = 2
    /\ xerr[1].file # xerr[2].file
    /\ Offenders(xf, tree) = TreeFiles

\* a verification filtered by paths has failed on one file and passed over
\* an offending file outside the filter
C22_FilteredWitness ==
    /\ xop = "apply"
    /\ xf.kind = "verify_match"
    /\ xf.paths # AllFiles
    /\ Len(xerr) = 1
    /\ \E p \in DOMAIN tree : ~Matches(xf.paths, p) /\ ~Contains(tree[p], xf.regex)
    /\ ~xf.verifyNoMatch

\* the path below the workdir that filepath.Join(WorkDir, after) names
Destination(after) == TrimPrefix(after, Slash)

\* C23: the reverse of Copy(before, after) is a Remove whose pattern set
\* matches the destination path after and every path beneath it, and
\* matches no path outside after.
C23_CopyReverseRemovesDestination ==
    (xorig.kind = "copy" /\ xrevs = 1) =>
        /\ xf.kind = "remove"
        /\ \A p \in Paths :
               Matches(xf.paths, p) <=> Beneath(p, Destination(xorig.after))

\* the case of C23 that holds: a destination that is a plain relative path
C23_NamedDestination ==
    (xorig.kind = "copy" /\ xrevs = 1 /\ xorig.after \in DirArgs) =>
        /\ xf.kind = "remove"
        /\ \A p \in Paths : Matches(xf.paths, p) <=> Beneath(p, xorig.after)

RECURSIVE WellFormed(_)
\* a pattern set with a non-empty include list and no pattern that begins
\* with the path separator
WellFormed(gl) ==
    /\ Len(gl.include) > 0
    /\ \A i \in 1..Len(gl.include) : ~HasPrefix(gl.include[i], Slash)
    /\ gl.exclude # NilGlob => WellFormed(gl.exclude[1])

\* C26: every pattern set that can exist, built by NewGlob, AllFiles, Union,
\* Difference or by a transformation's Reverse, has a non-empty include list
\* and no pattern beginning with the path separator.
C26_PatternSetInvariant ==
    /\ WellFormed(g)
    /\ WellFormed(acc)
    /\ (xf.kind \in {"move", "copy", "remove", "replace"} /\ xf.paths # NilGlob)
           => WellFormed(xf.paths)

\* the pattern sets of the pattern engine alone
C26_BuiltByScript == WellFormed(g) /\ WellFormed(acc)

(***************************************************************************)
(* Configuration: the Starlark builtins that validate their arguments and  *)
(* the author policy they build.  A builtin returns [err, value]: value is *)
(* <<>> next to an error and <<v>> otherwise.  An optional argument is     *)
(* [type, bool, str], of type "NoneType" when it is omitted.               *)
(***************************************************************************)
NoneArg == [type |-> "NoneType", bool |-> FALSE, str |-> <<>>]

BoolArg(b) == [type |-> "Bool", bool |-> b, str |-> <<>>]

StringArg(s) == [type |-> "String", bool |-> FALSE, str |-> s]

Failed(err) == [err |-> err, value |-> <<>>]

Returned(v) == [err |-> NoError, value |-> <<v>>]

ErrInvalidAuthor == "invalid author format"
ErrEmptyAllowlist == "'allowlist' must be a non-empty list"
ErrEmptyEntry == "allowlist entry cannot be empty"
ErrDuplicateEntry == "duplicate allowlist entry"
ErrUnknownMode == "unknown workflow mode"
ErrOriginFiles == "origin_files: invalid pattern"
ErrDestinationFiles == "destination_files: invalid pattern"
ErrReversibleCheck == "reversible_check must be a bool"
ErrNoRegex == "at least one regex must be provided via 'regex' or 'regexes'"
ErrMsgIfNoMatch == "if fail_if_no_match is true, msg_if_no_match should be None"
ErrLabelName == "'name': Invalid label name"
ErrNewName == "'new_name': Invalid label name"
ErrConcatSeparator == "'concat_separator': Cannot be set unless all is True"

\* regexp.MatchString for the regexes of the model: a literal text, with ^
\* in front and $ behind as the only metacharacters
MatchString(re, s) ==
    LET atStart == Len(re) > 0 /\ re[1] = "^"
        rest == IF atStart THEN Tail(re) ELSE re
        atEnd == Len(rest) > 0 /\ rest[Len(rest)] = "$"
        literal == IF atEnd THEN SubSeq(rest, 1, Len(rest) - 1) ELSE rest
    IN CASE atStart /\ atEnd -> s = literal
         [] atStart /\ ~atEnd -> HasPrefix(s, literal)
         [] ~atStart /\ atEnd -> HasSuffix(s, literal)
         [] OTHER -> Contains(s, literal)

\* an allowlist entry that starts and ends with / is a regex
IsRegexEntry(p) == Len(p) >= 2 /\ p[1] = "/" /\ p[Len(p)] = "/"

RegexOf(p) == SubSeq(p, 2, Len(p) - 1)

\* the first allowlist entry allowedFn rejects, 0 when it accepts them all
FirstBadEntry(allowlist) ==
    LET bad == {i \in 1..Len(allowlist) :
                   \/ allowlist[i] = <<>>
                   \/ \E j \in 1..(i - 1) : allowlist[j] = allowlist[i]}
    IN IF bad = {} THEN 0 ELSE SetMin(bad)

\* authoring.allowed(default, allowlist)
allowedFn(defaultAuthor, allowlist) ==
    IF ~ParseAuthor(defaultAuthor).ok THEN Failed(ErrInvalidAuthor)
    ELSE IF Len(allowlist) = 0 THEN Failed(ErrEmptyAllowlist)
    ELSE IF FirstBadEntry(allowlist) # 0
         THEN IF allowlist[FirstBadEntry(allowlist)] = <<>>
              THEN Failed(ErrEmptyEntry)
              ELSE Failed(ErrDuplicateEntry)
    ELSE Returned([defaultAuthor |-> ParseAuthor(defaultAuthor),
                   allowlist |-> allowlist,
                   patterns |-> SelectSeq(allowlist, IsRegexEntry)])

\* Allowed.isAllowed with the regexes tried on the email only
isAllowed_EmailOnly(a, author) ==
    \/ \E i \in 1..Len(a.allowlist) :
           a.allowlist[i] = author.email \/ a.allowlist[i] = AuthorString(author)
    \/ \E i \in 1..Len(a.patterns) :
           MatchString(RegexOf(a.patterns[i]), author.email)

\* Allowed.isAllowed: the loop over the entries, then the loop over the
\* compiled regexes
isAllowed(a, author) ==
    \/ \E i \in 1..Len(a.allowlist) :
           a.allowlist[i] = author.email \/ a.allowlist[i] = AuthorString(author)
    \/ \E i \in 1..Len(a.patterns) :
           \/ MatchString(RegexOf(a.patterns[i]), author.email)
           \/ MatchString(RegexOf(a.patterns[i]), AuthorString(author))

\* Allowed.ResolveAuthor; original is <<>> for nil
ResolveAuthor(a, original) ==
    IF original = <<>> THEN a.defaultAuthor
    ELSE IF isAllowed(a, original[1]) THEN original[1]
    ELSE a.defaultAuthor

LowerLetters ==
    <<"a", "b", "c", "d", "e", "f", "g", "h", "i", "j", "k", "l", "m",
      "n", "o", "p", "q", "r", "s", "t", "u", "v", "w", "x", "y", "z">>

UpperLetters ==
    <<"A", "B", "C", "D", "E", "F", "G", "H", "I", "J", "K", "L", "M",
      "N", "O", "P", "Q", "R", "S", "T", "U", "V", "W", "X", "Y", "Z">>

\* strings.ToUpper
ToUpper(s) ==
    [i \in 1..Len(s) |->
        IF \E k \in 1..26 : LowerLetters[k] = s[i]
        THEN UpperLetters[CHOOSE k \in 1..26 : LowerLetters[k] = s[i]]
        ELSE s[i]]

ModeSquash == <<"S", "Q", "U", "A", "S", "H">>
ModeIterative == <<"I", "T", "E", "R", "A", "T", "I", "V", "E">>
ModeChangeRequest == <<"C", "H", "A", "N", "G", "E", "_", "R", "E", "Q", "U", "E", "S", "T">>
ModeChangeRequestFromSOT == <<"C", "H", "A", "N", "G", "E", "_", "R", "E", "Q", "U", "E", "S", "T", "_", "F", "R", "O", "M", "_", "S", "O", "T">>

\* ParseWorkflowMode: the mode next to a nil error, ModeSquash next to an
\* error
ParseWorkflowMode(s) ==
    IF ToUpper(s) \in {ModeSquash, ModeIterative, ModeChangeRequest,
                       ModeChangeRequestFromSOT}
    THEN [err |-> NoError, mode |-> ToUpper(s)]
    ELSE [err |-> ErrUnknownMode, mode |-> ModeSquash]

\* a glob argument: omitted, or a list of patterns
NoGlobArg == [type |-> "NoneType", list |-> <<>>]

ListArg(patterns) == [type |-> "List", list |-> patterns]

\* wrapGlob: [err, glob]
wrapGlob(v) ==
    IF v.type = "NoneType" THEN [err |-> NoError, glob |-> AllFiles]
    ELSE IF NewGlobOk(v.list, <<>>)
         THEN [err |-> NoError, glob |-> NewGlob(v.list, <<>>)]
         ELSE [err |-> "invalid pattern", glob |-> NilGlob]

\* core.workflow with reversible_check on by default in every mode
workflowFn_DefaultTrue(mode, originFiles, destinationFiles, reversibleCheck) ==
    IF ParseWorkflowMode(mode).err # NoError THEN Failed(ErrUnknownMode)
    ELSE IF wrapGlob(originFiles).err # NoError THEN Failed(ErrOriginFiles)
    ELSE IF wrapGlob(destinationFiles).err # NoError
         THEN Failed(ErrDestinationFiles)
    ELSE IF reversibleCheck.type \notin {"NoneType", "Bool"}
         THEN Failed(ErrReversibleCheck)
    ELSE Returned([mode |-> ParseWorkflowMode(mode).mode,
                   originFiles |-> wrapGlob(originFiles).glob,
                   destinationFiles |-> wrapGlob(destinationFiles).glob,
                   reversibleCheck |->
                       IF reversibleCheck.type = "NoneType" THEN TRUE
                       ELSE reversibleCheck.bool])

\* core.workflow(mode, origin_files, destination_files, reversible_check)
workflowFn(mode, originFiles, destinationFiles, reversibleCheck) ==
    IF ParseWorkflowMode(mode).err # NoError THEN Failed(ErrUnknownMode)
    ELSE IF wrapGlob(originFiles).err # NoError THEN Failed(ErrOriginFiles)
    ELSE IF wrapGlob(destinationFiles).err # NoError
         THEN Failed(ErrDestinationFiles)
    ELSE IF reversibleCheck.type \notin {"NoneType", "Bool"}
         THEN Failed(ErrReversibleCheck)
    ELSE Returned([mode |-> ParseWorkflowMode(mode).mode,
                   originFiles |-> wrapGlob(originFiles).glob,
                   destinationFiles |-> wrapGlob(destinationFiles).glob,
                   reversibleCheck |->
                       IF reversibleCheck.type = "NoneType"
                       THEN ParseWorkflowMode(mode).mode = ModeChangeRequest
                       ELSE reversibleCheck.bool])

\* the patterns scrubberFn collects: regex when it is not empty, then the
\* entries of regexes
ScrubberPatterns(regex, regexes) ==
    (IF regex # <<>> THEN <<regex>> ELSE <<>>) \o regexes

\* metadata.scrubber that accepts every combination of its flags
scrubberFn_NoValidation(regex, regexes, msgIfNoMatch, failIfNoMatch, replacement) ==
    Returned(MkScrubber(ScrubberPatterns(regex, regexes), replacement,
                        msgIfNoMatch.str, failIfNoMatch))

\* metadata.scrubber(regex, regexes, msg_if_no_match, fail_if_no_match,
\* replacement); an omitted regexes list is the empty list
scrubberFn(regex, regexes, msgIfNoMatch, failIfNoMatch, replacement) ==
    IF Len(ScrubberPatterns(regex, regexes)) = 0 THEN Failed(ErrNoRegex)
    ELSE IF failIfNoMatch /\ msgIfNoMatch.str # <<>> THEN Failed(ErrMsgIfNoMatch)
    ELSE Returned(MkScrubber(ScrubberPatterns(regex, regexes), replacement,
                             msgIfNoMatch.str, failIfNoMatch))

\* ^[A-Za-z][A-Za-z0-9_-]*$
isValidLabelName(name) ==
    /\ Len(name) > 0
    /\ name[1] \in NameStart
    /\ \A i \in 2..Len(name) : name[i] \in NameChars

MkExposeLabel(name, newName, separator, ignoreLabelNotFound, all, concatSeparator, hasConcatSeparator) ==
    [kind |-> "expose_label", name |-> name, newName |-> newName,
     separator |-> separator, ignoreLabelNotFound |-> ignoreLabelNotFound,
     all |-> all, concatSeparator |-> concatSeparator,
     hasConcatSeparator |-> hasConcatSeparator]

\* metadata.expose_label(name, new_name, separator, ignore_label_not_found,
\* all, concat_separator)
exposeLabelFn(name, newName, separator, ignoreLabelNotFound, all, concatSeparator) ==
    IF ~isValidLabelName(name) THEN Failed(ErrLabelName)
    ELSE IF newName.type # "NoneType" /\ ~isValidLabelName(newName.str)
         THEN Failed(ErrNewName)
    ELSE IF concatSeparator.type # "NoneType" /\ ~all
         THEN Failed(ErrConcatSeparator)
    ELSE Returned(MkExposeLabel(
             name, IF newName.type = "NoneType" THEN name ELSE newName.str,
             separator, ignoreLabelNotFound, all, concatSeparator.str,
             concatSeparator.type # "NoneType"))

(***************************************************************************)
(* Configuration: inputs and operations.  The builtins are functions of    *)
(* their arguments alone, so a behaviour makes one call, and may go on to  *)
(* query the policy it returned.                                           *)
(***************************************************************************)
\* longest allowlist handed to authoring.allowed
MaxAllowlist == 2

\* "D <d@x>", the default author, and "D", which does not parse
AuthorD == <<"D", " ", "<", "d", "@", "x", ">">>
DefaultInputs == {AuthorD, <<"D">>}

\* allowlist entries: "a@x", "B <b@x>", "/^a@/", "/^B /", "/c@x>$/", ""
EntryPool ==
    {MailA, AuthorB, <<"/", "^", "a", "@", "/">>, <<"/", "^", "B", " ", "/">>, <<"/", "c", "@", "x", ">", "$", "/">>, <<>>}

AllowlistInputs ==
    UNION {[1..n -> EntryPool] : n \in 0..MaxAllowlist}

\* original authors: nil, or NewAuthor(name, email)
OriginalInputs ==
    {<<>>} \cup {<<[ok |-> TRUE, name |-> n, email |-> e]>> :
                    n \in {<<"A">>, <<"B">>, <<"C">>},
                    e \in {MailA, <<"b", "@", "x">>, <<"c", "@", "x">>}}

\* mode arguments of core.workflow
ModeInputs ==
    {ModeSquash, <<"s", "q", "u", "a", "s", "h">>, ModeIterative, ModeChangeRequest,
     <<"c", "h", "a", "n", "g", "e", "_", "r", "e", "q", "u", "e", "s", "t">>, <<"C", "h", "a", "n", "g", "e", "_", "R", "e", "q", "u", "e", "s", "t">>, ModeChangeRequestFromSOT,
     <<"M", "I", "R", "R", "O", "R">>}

\* reversible_check arguments: omitted, True, False, "x"
ReversibleCheckInputs ==
    {NoneArg, BoolArg(TRUE), BoolArg(FALSE), StringArg(<<"x">>)}

\* origin_files and destination_files arguments: omitted, ["a/*"], ["/a"]
OriginFilesInputs ==
    {NoGlobArg, ListArg(<<<<"a", "/", "*">>>>), ListArg(<<BadPattern>>)}

DestinationFilesInputs == {NoGlobArg, ListArg(<<<<"a", "/", "*">>>>)}

\* msg_if_no_match arguments: omitted, "", "m"
MsgIfNoMatchInputs == {NoneArg, StringArg(<<>>), StringArg(<<"m">>)}

\* concat_separator and new_name arguments
ConcatSeparatorInputs == {NoneArg, StringArg(<<>>), StringArg(<<",">>)}
NewNameInputs == {NoneArg, StringArg(<<"N">>), StringArg(<<"-">>)}

\* authoring.allowed(default, allowlist)
CallAllowed ==
    /\ cop = "idle"
    /\ \E defaultAuthor \in DefaultInputs, allowlist \in AllowlistInputs :
           /\ cop' = "allowed"
           /\ cin' = [defaultAuthor |-> defaultAuthor, allowlist |-> allowlist]
           /\ cout' = allowedFn(defaultAuthor, allowlist)
           /\ UNCHANGED <<gvars, xvars, avars, mvars>>

\* ResolveAuthor on the policy the last call built
CallResolveAuthor ==
    /\ cop = "allowed"
    /\ cout.err = NoError
    /\ \E original \in OriginalInputs :
           /\ cop' = "ResolveAuthor"
           /\ cin' = [policy |-> cout.value[1], original |-> original]
           /\ cout' = Returned(ResolveAuthor(cout.value[1], original))
    /\ UNCHANGED <<gvars, xvars, avars, mvars>>

\* core.workflow(...)
CallWorkflow ==
    /\ cop = "idle"
    /\ \E mode \in ModeInputs, originFiles \in OriginFilesInputs, destinationFiles \in DestinationFilesInputs, reversibleCheck \in ReversibleCheckInputs :
           /\ cop' = "workflow"
           /\ cin' = [mode |-> mode, originFiles |-> originFiles,
                      destinationFiles |-> destinationFiles,
                      reversibleCheck |-> reversibleCheck]
           /\ cout' = workflowFn(mode, originFiles, destinationFiles, reversibleCheck)
           /\ UNCHANGED <<gvars, xvars, avars, mvars>>

\* metadata.scrubber(...)
CallScrubber ==
    /\ cop = "idle"
    /\ \E regex \in {<<>>, <<"x">>}, regexes \in {<<>>, <<<<"y">>>>}, msgIfNoMatch \in MsgIfNoMatchInputs, failIfNoMatch \in BOOLEAN, replacement \in {<<>>, <<"r">>} :
           /\ cop' = "scrubber"
           /\ cin' = [regex |-> regex, regexes |-> regexes,
                      msgIfNoMatch |-> msgIfNoMatch,
                      failIfNoMatch |-> failIfNoMatch, replacement |-> replacement]
           /\ cout' = scrubberFn(regex, regexes, msgIfNoMatch, failIfNoMatch, replacement)
           /\ UNCHANGED <<gvars, xvars, avars, mvars>>

\* metadata.expose_label(...)
CallExposeLabel ==
    /\ cop = "idle"
    /\ \E name \in {LabelL, <<"1", "L">>}, newName \in NewNameInputs, ignoreLabelNotFound \in BOOLEAN, all \in BOOLEAN, concatSeparator \in ConcatSeparatorInputs :
           /\ cop' = "expose_label"
           /\ cin' = [name |-> name, newName |-> newName,
                      ignoreLabelNotFound |-> ignoreLabelNotFound, all |-> all,
                      concatSeparator |-> concatSeparator]
           /\ cout' = exposeLabelFn(name, newName, <<"=">>, ignoreLabelNotFound, all, concatSeparator)
           /\ UNCHANGED <<gvars, xvars, avars, mvars>>

ConfigNext ==
    \/ CallAllowed
    \/ CallResolveAuthor
    \/ CallWorkflow
    \/ CallScrubber
    \/ CallExposeLabel

(***************************************************************************)
(* Configuration: properties                                               *)
(***************************************************************************)
\* the author matches the allow-list entry: by exact email, by exact
\* "Name <email>" string, or by a /regex/ entry tried on both
EntryMatches(entry, author) ==
    \/ entry = author.email
    \/ entry = AuthorString(author)
    \/ /\ IsRegexEntry(entry)
       /\ \/ MatchString(RegexOf(entry), author.email)
          \/ MatchString(RegexOf(entry), AuthorString(author))

SomeEntryMatches(policy, author) ==
    \E i \in 1..Len(policy.allowlist) : EntryMatches(policy.allowlist[i], author)

\* C24: Allowed.ResolveAuthor returns the original author if it matches some
\* allow-list entry, by exact email, by exact "Name <email>" string or by a
\* /regex/ entry tested against both, and the configured default in every
\* other case, including when no original author is given.
C24_ResolveAuthor ==
    cop = "ResolveAuthor" =>
        cout.value[1] =
            IF cin.original # <<>> /\ SomeEntryMatches(cin.policy, cin.original[1])
            THEN cin.original[1]
            ELSE cin.policy.defaultAuthor

\* C24 witness: the original author passes only because a regex entry
\* matches the "Name <email>" string and not the email
C24_Witness ==
    /\ cop = "ResolveAuthor"
    /\ cin.original # <<>>
    /\ cout.value[1] = cin.original[1]
    /\ cout.value[1] # cin.policy.defaultAuthor
    /\ \A i \in 1..Len(cin.policy.allowlist) :
           /\ cin.policy.allowlist[i] # cin.original[1].email
           /\ cin.policy.allowlist[i] # AuthorString(cin.original[1])
           /\ IsRegexEntry(cin.policy.allowlist[i])
                  => ~MatchString(RegexOf(cin.policy.allowlist[i]), cin.original[1].email)

\* the default is returned for nil and for an author no entry matches
C24_DefaultWitness ==
    /\ cop = "ResolveAuthor"
    /\ cin.original # <<>>
    /\ ~SomeEntryMatches(cin.policy, cin.original[1])
    /\ cout.value[1] = ParseAuthor(AuthorD)

\* C25: a workflow's reversible_check is true by default only when its mode
\* is CHANGE_REQUEST and false by default for every other mode; a value
\* given explicitly is used as given, whatever the mode.
C25_ReversibleCheckDefault ==
    (cop = "workflow" /\ cout.err = NoError) =>
        cout.value[1].reversibleCheck =
            IF cin.reversibleCheck.type = "NoneType"
            THEN ToUpper(cin.mode) = ModeChangeRequest
            ELSE cin.reversibleCheck.bool

\* C25 witness: mode "change_request" without reversible_check
C25_Witness ==
    /\ cop = "workflow"
    /\ cout.err = NoError
    /\ cin.mode # ModeChangeRequest
    /\ cout.value[1].mode = ModeChangeRequest
    /\ cin.reversibleCheck = NoneArg
    /\ cout.value[1].reversibleCheck

\* the other cases of C25: CHANGE_REQUEST_FROM_SOT defaults to false, and
\* an explicit False wins in CHANGE_REQUEST mode
C25_OtherModeWitness ==
    /\ cop = "workflow"
    /\ cout.err = NoError
    /\ cout.value[1].mode = ModeChangeRequestFromSOT
    /\ cin.reversibleCheck = NoneArg
    /\ ~cout.value[1].reversibleCheck

C25_ExplicitWitness ==
    /\ cop = "workflow"
    /\ cout.err = NoError
    /\ cout.value[1].mode = ModeChangeRequest
    /\ cin.reversibleCheck = BoolArg(FALSE)
    /\ ~cout.value[1].reversibleCheck

\* the call returned an error and no value to apply
Rejected == cout.err # NoError /\ cout.value = <<>>

HasDuplicate(list) ==
    \E i, j \in 1..Len(list) : i # j /\ list[i] = list[j]

\* C27: contradictory configuration is rejected at construction time: a
\* Scrubber given both fail_if_no_match and a non-empty msg_if_no_match, or
\* zero regexes; an ExposeLabel given a concatenation separator without
\* all=true; an Allowed policy given an empty allow-list or a duplicate
\* entry.
C27_ContradictionsRejected ==
    /\ (/\ cop = "scrubber"
        /\ \/ cin.failIfNoMatch /\ cin.msgIfNoMatch.str # <<>>
           \/ cin.regex = <<>> /\ cin.regexes = <<>>)
           => Rejected
    /\ (cop = "expose_label" /\ cin.concatSeparator.type # "NoneType" /\ ~cin.all)
           => Rejected
    /\ (cop = "allowed" /\ (cin.allowlist = <<>> \/ HasDuplicate(cin.allowlist)))
           => Rejected

\* C27 witness: a scrubber with a regex, fail_if_no_match and a message
C27_Witness ==
    /\ cop = "scrubber"
    /\ cin.regex # <<>>
    /\ cin.failIfNoMatch
    /\ cin.msgIfNoMatch.str # <<>>
    /\ cout.err = ErrMsgIfNoMatch
    /\ cout.value = <<>>

C27_ExposeLabelWitness ==
    /\ cop = "expose_label"
    /\ isValidLabelName(cin.name)
    /\ cin.concatSeparator = StringArg(<<",">>)
    /\ ~cin.all
    /\ cout.err = ErrConcatSeparator

C27_AllowedWitness ==
    /\ cop = "allowed"
    /\ HasDuplicate(cin.allowlist)
    /\ cin.allowlist[1] # <<>>
    /\ cout.err = ErrDuplicateEntry

(***************************************************************************)
(* Save and restore of the author: a pass applies SaveAuthor, the author   *)
(* of the Context is then replaced, and the reverse of the SaveAuthor is   *)
(* applied. mpre keeps the Context SaveAuthor was applied to.              *)
(***************************************************************************)
\* SaveAuthor.Reverse
SaveAuthorReverse(s) == MkRestoreAuthor(s.label, s.separator, FALSE)

\* a change that carries L=C <c@x> and nothing else
ChangeFour ==
    [Ref |-> <<"r", "4">>, Author |-> AuthorB, Message |-> <<"m", "4">>, MappedAuthor |-> <<>>,
     IsMerge |-> FALSE, Labels |-> MapPut(<<>>, LabelL, <<AuthorC>>)]

\* the change lists of a save-and-restore pass: none, the nearest change
\* without the label, the nearest change with a label value that is no
\* author, and the nearest change with a label value that is one
SaveChanges ==
    {<<>>, <<ChangeOne, ChangeTwo, ChangeThree>>, <<ChangeTwo, ChangeOne>>, <<ChangeFour, ChangeOne>>}

SaveContexts ==
    {[Author |-> author, Message |-> message, Changes |-> changes, Labels |-> <<>>] :
        author \in {<<>>, AuthorA, NameA}, message \in MessageInputs, changes \in SaveChanges}

\* the authors the Context is given after the save
NewAuthors == {<<>>, AuthorB, AuthorC}

\* SaveAuthor.Apply on the Context of the pass
SaveStep ==
    /\ mop = "context"
    /\ \E t \in SaveAuthorInputs :
          LET Saved(r) ==
                  /\ mt' = t
                  /\ mpre' = mctx
                  /\ mctx' = r.ctx
                  /\ merr' = r.err
              IN Saved(SaveAuthorApply(t, mctx))
    /\ mop' = "saved"
    /\ mcount' = mcount + 1
    /\ UNCHANGED <<gvars, xvars, avars, cvars>>

\* ctx.Author = author: the only field written between save and restore
SetAuthor ==
    /\ mop = "saved"
    /\ \E author \in NewAuthors :
          /\ author # mctx.Author
          /\ mctx' = [mctx EXCEPT !.Author = author]
    /\ mop' = "author"
    /\ UNCHANGED <<mt, mpre, merr, mcount, gvars, xvars, avars, cvars>>

\* s.Reverse().Apply(ctx) for the SaveAuthor s of the pass
RestoreStep ==
    /\ mop \in {"saved", "author"}
    /\ LET Restored(r) ==
               /\ mctx' = r.ctx
               /\ merr' = r.err
       IN Restored(RestoreAuthorApply(SaveAuthorReverse(mt), mctx))
    /\ mop' = "restored"
    /\ mcount' = mcount + 1
    /\ UNCHANGED <<mt, mpre, gvars, xvars, avars, cvars>>

SaveNext ==
    \/ SaveStep
    \/ SetAuthor
    \/ RestoreStep

\* "Name <email>" as authoring.ParseAuthor reads and Author.String writes it
WellFormedAuthor(a) == ParseAuthor(a).ok /\ AuthorString(ParseAuthor(a)) = a

\* C29: if SaveAuthor is applied while Context.Author is a well-formed author
\* a, and afterwards only Context.Author is changed, then applying the
\* SaveAuthor's Reverse sets Context.Author back to a and removes the saved
\* label line from the message, whatever labels the Changes carry.
C29_SaveThenRestore ==
    (mop = "restored" /\ WellFormedAuthor(mpre.Author)) =>
        /\ merr = NoError
        /\ mctx.Author = mpre.Author
        /\ MessageLabelValues(mctx.Message, mt.label) = <<>>

\* the same round trip when the nearest Change holds no value for the label:
\* the author is restored and no line of the label is left
C29_NearestChangeUnlabelled ==
    (mop = "restored" /\ WellFormedAuthor(mpre.Author)
         /\ 1 \notin ChangesWith(mpre.Changes, mt.label)) =>
        /\ merr = NoError
        /\ mctx.Author = mpre.Author
        /\ MessageLabelValues(mctx.Message, mt.label) = <<>>

\* the round trip has restored an author that had been replaced, in a
\* Context whose later changes carry the label
C29_RestoredWitness ==
    /\ mop = "restored"
    /\ WellFormedAuthor(mpre.Author)
    /\ Len(mpre.Changes) = 3
    /\ mctx.Author = mpre.Author
    /\ MessageLabelValues(mctx.Message, mt.label) = <<>>

(***************************************************************************)
(* The Change list of a pass                                               *)
(***************************************************************************)
\* the entries of a Change list, each named by its Ref, in list order
Refs(changes) == [i \in 1..Len(changes) |-> changes[i].Ref]

\* one step of a pass leaves the Change list with the same entries in the
\* same order
C30Step == Refs(mctx'.Changes) = Refs(mctx.Changes)

\* C30: no transformation's Apply adds, removes or reorders the entries of the
\* Context's Change list: after any sequence of Apply calls the list holds the
\* same Changes in the same order as before, including after SquashNotes with
\* oldest_first or with merge changes excluded.
C30_ChangeListKept == [][C30Step]_vars

\* C30 witness: a second Apply in a row was a squash_notes with max > 0 that
\* lists oldest first or leaves merges out, over three changes of which one is
\* a merge, and the list is still the three changes in their order
C30_Witness ==
    /\ Applied("squash_notes")
    /\ mcount = 2
    /\ mt.max > 0
    /\ mt.oldestFirst \/ ~mt.useMerge
    /\ Refs(mctx.Changes) = <<ChangeOne.Ref, ChangeTwo.Ref, ChangeThree.Ref>>

\* a map_author with map_all has written the mapped author of every change
\* and the list is still the three changes in their order
C30_MapAuthorWitness ==
    /\ Applied("map_author")
    /\ mt.mapAll
    /\ merr = NoError
    /\ mctx.Changes # mpre.Changes
    /\ Refs(mctx.Changes) = <<ChangeOne.Ref, ChangeTwo.Ref, ChangeThree.Ref>>

(***************************************************************************)
(* Specifications                                                          *)
(***************************************************************************)
\* Each specification starts one engine; the variables of the other engines
\* keep their idle values.
GlobInit ==
    /\ g = AllFiles
    /\ acc = AllFiles
    /\ gop = "init"
    /\ gpath = NoPath
    /\ gres = FALSE
    /\ groots = {}
    /\ xf = XfNone
    /\ xorig = XfNone
    /\ xrevs = 0
    /\ tree = <<>>
    /\ xop = "idle"
    /\ ma = MaNone
    /\ maorig = MaNone
    /\ marevs = 0
    /\ ctx = <<>>
    /\ aerr = NoError
    /\ aop = "idle"
    /\ mt = MtNone
    /\ mctx = <<>>
    /\ mpre = <<>>
    /\ merr = NoError
    /\ mop = "idle"
    /\ mcount = 0
    /\ fs = <<>>
    /\ flog = <<>>
    /\ xerr = <<>>
    /\ cop = "idle"
    /\ cin = <<>>
    /\ cout = <<>>

SpecGlob == GlobInit /\ [][GlobNext]_vars

XfInit ==
    /\ xf = XfNone
    /\ xorig = XfNone
    /\ xrevs = 0
    /\ tree \in [TreeFiles -> {<<"x", "y">>, <<"y">>}]
    /\ xop = "init"
    /\ g = AllFiles
    /\ acc = AllFiles
    /\ gop = "idle"
    /\ gpath = NoPath
    /\ gres = FALSE
    /\ groots = {}
    /\ ma = MaNone
    /\ maorig = MaNone
    /\ marevs = 0
    /\ ctx = <<>>
    /\ aerr = NoError
    /\ aop = "idle"
    /\ mt = MtNone
    /\ mctx = <<>>
    /\ mpre = <<>>
    /\ merr = NoError
    /\ mop = "idle"
    /\ mcount = 0
    /\ fs = <<>>
    /\ flog = <<>>
    /\ xerr = <<>>
    /\ cop = "idle"
    /\ cin = <<>>
    /\ cout = <<>>

SpecXform == XfInit /\ [][XfNext]_vars

CopyInit ==
    /\ xf = XfNone
    /\ xorig = XfNone
    /\ xrevs = 0
    /\ tree \in [TreeFiles -> {<<"x", "y">>, <<"y">>}]
    /\ xop = "init"
    /\ g = AllFiles
    /\ acc = AllFiles
    /\ gop = "idle"
    /\ gpath = NoPath
    /\ gres = FALSE
    /\ groots = {}
    /\ ma = MaNone
    /\ maorig = MaNone
    /\ marevs = 0
    /\ ctx = <<>>
    /\ aerr = NoError
    /\ aop = "idle"
    /\ mt = MtNone
    /\ mctx = <<>>
    /\ mpre = <<>>
    /\ merr = NoError
    /\ mop = "idle"
    /\ mcount = 0
    /\ fs = <<>>
    /\ flog = <<>>
    /\ xerr = <<>>
    /\ cop = "idle"
    /\ cin = <<>>
    /\ cout = <<>>

SpecCopy == CopyInit /\ [][CopyNext]_vars

VerifyInit ==
    /\ xf = XfNone
    /\ xorig = XfNone
    /\ xrevs = 0
    /\ tree \in VerifyTrees
    /\ xop = "init"
    /\ g = AllFiles
    /\ acc = AllFiles
    /\ gop = "idle"
    /\ gpath = NoPath
    /\ gres = FALSE
    /\ groots = {}
    /\ ma = MaNone
    /\ maorig = MaNone
    /\ marevs = 0
    /\ ctx = <<>>
    /\ aerr = NoError
    /\ aop = "idle"
    /\ mt = MtNone
    /\ mctx = <<>>
    /\ mpre = <<>>
    /\ merr = NoError
    /\ mop = "idle"
    /\ mcount = 0
    /\ fs = <<>>
    /\ flog = <<>>
    /\ xerr = <<>>
    /\ cop = "idle"
    /\ cin = <<>>
    /\ cout = <<>>

SpecVerify == VerifyInit /\ [][VerifyNext]_vars

MoveInit ==
    /\ xf = XfNone
    /\ xorig = XfNone
    /\ xrevs = 0
    /\ tree = <<>>
    /\ xop = "init"
    /\ g = AllFiles
    /\ acc = AllFiles
    /\ gop = "idle"
    /\ gpath = NoPath
    /\ gres = FALSE
    /\ groots = {}
    /\ ma = MaNone
    /\ maorig = MaNone
    /\ marevs = 0
    /\ ctx = <<>>
    /\ aerr = NoError
    /\ aop = "idle"
    /\ mt = MtNone
    /\ mctx = <<>>
    /\ mpre = <<>>
    /\ merr = NoError
    /\ mop = "idle"
    /\ mcount = 0
    /\ fs \in MoveLayouts
    /\ flog = <<>>
    /\ xerr = <<>>
    /\ cop = "idle"
    /\ cin = <<>>
    /\ cout = <<>>

SpecMove == MoveInit /\ [][MoveNext]_vars

AuthorInit ==
    /\ ma = MaNone
    /\ maorig = MaNone
    /\ marevs = 0
    /\ ctx = NewContext
    /\ aerr = NoError
    /\ aop = "init"
    /\ g = AllFiles
    /\ acc = AllFiles
    /\ gop = "idle"
    /\ gpath = NoPath
    /\ gres = FALSE
    /\ groots = {}
    /\ xf = XfNone
    /\ xorig = XfNone
    /\ xrevs = 0
    /\ tree = <<>>
    /\ xop = "idle"
    /\ mt = MtNone
    /\ mctx = <<>>
    /\ mpre = <<>>
    /\ merr = NoError
    /\ mop = "idle"
    /\ mcount = 0
    /\ fs = <<>>
    /\ flog = <<>>
    /\ xerr = <<>>
    /\ cop = "idle"
    /\ cin = <<>>
    /\ cout = <<>>

SpecAuthor == AuthorInit /\ [][AuthorNext]_vars

MsgInit ==
    /\ mt = MtNone
    /\ mctx \in ContextInputs
    /\ mpre = mctx
    /\ merr = NoError
    /\ mop = "context"
    /\ mcount = 0
    /\ fs = <<>>
    /\ flog = <<>>
    /\ xerr = <<>>
    /\ cop = "idle"
    /\ cin = <<>>
    /\ cout = <<>>
    /\ g = AllFiles
    /\ acc = AllFiles
    /\ gop = "idle"
    /\ gpath = NoPath
    /\ gres = FALSE
    /\ groots = {}
    /\ xf = XfNone
    /\ xorig = XfNone
    /\ xrevs = 0
    /\ tree = <<>>
    /\ xop = "idle"
    /\ ma = MaNone
    /\ maorig = MaNone
    /\ marevs = 0
    /\ ctx = <<>>
    /\ aerr = NoError
    /\ aop = "idle"

SpecMessage == MsgInit /\ [][MsgNext]_vars

ConfigInit ==
    /\ xf = XfNone
    /\ xorig = XfNone
    /\ xrevs = 0
    /\ tree = <<>>
    /\ xop = "init"
    /\ g = AllFiles
    /\ acc = AllFiles
    /\ gop = "idle"
    /\ gpath = NoPath
    /\ gres = FALSE
    /\ groots = {}
    /\ ma = MaNone
    /\ maorig = MaNone
    /\ marevs = 0
    /\ ctx = <<>>
    /\ aerr = NoError
    /\ aop = "idle"
    /\ mt = MtNone
    /\ mctx = <<>>
    /\ mpre = <<>>
    /\ merr = NoError
    /\ mop = "idle"
    /\ mcount = 0
    /\ fs = <<>>
    /\ flog = <<>>
    /\ xerr = <<>>
    /\ cop = "idle"
    /\ cin = <<>>
    /\ cout = <<>>

SpecConfig == ConfigInit /\ [][ConfigNext]_vars

SaveInit ==
    /\ mt = MtNone
    /\ mctx \in SaveContexts
    /\ mpre = mctx
    /\ merr = NoError
    /\ mop = "context"
    /\ mcount = 0
    /\ fs = <<>>
    /\ flog = <<>>
    /\ xerr = <<>>
    /\ cop = "idle"
    /\ cin = <<>>
    /\ cout = <<>>
    /\ g = AllFiles
    /\ acc = AllFiles
    /\ gop = "idle"
    /\ gpath = NoPath
    /\ gres = FALSE
    /\ groots = {}
    /\ xf = XfNone
    /\ xorig = XfNone
    /\ xrevs = 0
    /\ tree = <<>>
    /\ xop = "idle"
    /\ ma = MaNone
    /\ maorig = MaNone
    /\ marevs = 0
    /\ ctx = <<>>
    /\ aerr = NoError
    /\ aop = "idle"

SpecSave == SaveInit /\ [][SaveNext]_vars

====
